---------------------------- MODULE Spec2Model ----------------------------
(***************************************************************************)
(* Model of the Zeenea GraphQL example scripts: the GraphQL client         *)
(* (zeenea/graphql.py) with its retry loop, the response / error model,    *)
(* the cursor helper, and the scripts that drive them.                     *)
(***************************************************************************)
EXTENDS Integers, Sequences, FiniteSets, TLC

(***************************************************************************)
(* Bounds of the model.                                                    *)
(***************************************************************************)
\* Largest max_retries a client is constructed with.
MaxRetriesBound == 3
\* Number of request calls issued on one client.
MaxCalls == 2

(***************************************************************************)
(* Python values.  Every value carries its type in field t, so that None,  *)
(* strings, lists and dicts can live in the same variable and Python's     *)
(* truthiness can be computed.                                             *)
(***************************************************************************)
None == [t |-> "None"]
Str(s) == [t |-> "str", v |-> s]
List(s) == [t |-> "list", v |-> s]
Dict(d) == [t |-> "dict", v |-> d]
Bool(b) == [t |-> "bool", v |-> b]

IsNone(x) == x.t = "None"

\* bool(x) of Python: None, "", [], {} and False are falsy; a GqlPage is
\* truthy when it has content (GqlPage.__bool__); objects of classes
\* without __bool__/__len__ are truthy.
Truthy(x) ==
    CASE x.t = "None" -> FALSE
      [] x.t = "str"  -> x.v # ""
      [] x.t = "list" -> Len(x.v) # 0
      [] x.t = "dict" -> DOMAIN x.v # {}
      [] x.t = "bool" -> x.v
      [] x.t = "int"  -> x.v # 0
      [] x.t = "GqlPage" -> Len(x.content.v) # 0
      [] OTHER        -> TRUE

\* dict.get(key): the value, or None when the key is missing.
Get(d, k) == IF k \in DOMAIN d.v THEN d.v[k] ELSE None

Num(n) == [t |-> "int", v |-> n]

(***************************************************************************)
(* JSON bodies.  A JSON object is a Dict whose keys may be missing; Absent *)
(* marks a key that is left out when a body is built.                      *)
(***************************************************************************)
Absent == [t |-> "absent"]

\* The JSON object {"data": d, "errors": e}, a key being left out when its
\* value is Absent.
MkBody(d, e) ==
    Dict([k \in ({"data"} \ (IF d = Absent THEN {"data"} ELSE {}))
                \cup ({"errors"} \ (IF e = Absent THEN {"errors"} ELSE {}))
            |-> IF k = "data" THEN d ELSE e])

\* Two GraphQL errors as the server sends them: one with a code in its
\* extensions, one without extensions.
ErrNotFound ==
    Dict([message |-> Str("item not found"),
          extensions |-> Dict([code |-> Str("ITEM_NOT_FOUND")])])
ErrPlain == Dict([message |-> Str("internal error")])

\* The values the server puts under "errors".
ErrorsValues ==
    {Absent, None, List(<<>>), List(<<ErrNotFound>>), List(<<ErrPlain, ErrNotFound>>)}

\* The values the server puts under "data" for a query the scripts do not
\* interpret.
OpaqueData == Dict([viewer |-> Str("v")])
DataValues == {Absent, None, OpaqueData}

\* 200 bodies for an uninterpreted query.
GenericBodies == {MkBody(d, e) : d \in DataValues, e \in ErrorsValues}

\* Bodies of non-200 answers (only echoed in the failure message).
FailureBodies == {Dict([error |-> Str("b1")]), Dict([error |-> Str("b2")])}

(***************************************************************************)
(* Response / error model (zeenea/graphql.py).                             *)
(***************************************************************************)
\* Mapping of a function over a sequence.
MapSeq(f(_), s) == [i \in 1..Len(s) |-> f(s[i])]

\* Variant of GqlError: an error without code gets the empty string as code.
GqlError_empty_code(json) ==
    LET extensions == Get(json, "extensions") IN
    [t |-> "GqlError",
     message |-> Get(json, "message"),
     path |-> Get(json, "path"),
     extensions |-> extensions,
     code |-> IF Truthy(extensions) /\ "code" \in DOMAIN extensions.v
              THEN extensions.v["code"] ELSE Str("")]

GqlError(json) ==
    LET extensions == Get(json, "extensions") IN
    [t |-> "GqlError",
     message |-> Get(json, "message"),
     path |-> Get(json, "path"),
     extensions |-> extensions,
     code |-> IF Truthy(extensions) THEN Get(extensions, "code") ELSE None]

GqlErrorList(errors) == [t |-> "GqlErrorList", errors |-> errors]

\* Variant of GqlResponse: an empty errors list of the body is kept as an
\* empty GqlErrorList.
GqlResponse_keep_empty(json_response) ==
    LET errors == Get(json_response, "errors") IN
    [t |-> "GqlResponse",
     data |-> Get(json_response, "data"),
     errors |-> IF errors.t = "list"
                THEN GqlErrorList(MapSeq(GqlError, errors.v))
                ELSE None,
     extensions |-> Get(json_response, "extensions")]

\* Variant of GqlResponse: data is dropped when the body carries errors.
GqlResponse_drop_data(json_response) ==
    LET errors == Get(json_response, "errors") IN
    [t |-> "GqlResponse",
     data |-> IF Truthy(errors) THEN None ELSE Get(json_response, "data"),
     errors |-> IF Truthy(errors)
                THEN GqlErrorList(MapSeq(GqlError, errors.v))
                ELSE None,
     extensions |-> Get(json_response, "extensions")]

GqlResponse(json_response) ==
    LET errors == Get(json_response, "errors") IN
    [t |-> "GqlResponse",
     data |-> Get(json_response, "data"),
     errors |-> IF Truthy(errors)
                THEN GqlErrorList(MapSeq(GqlError, errors.v))
                ELSE None,
     extensions |-> Get(json_response, "extensions")]

(***************************************************************************)
(* Query texts.  A text is its sequence of lexical tokens: a run of        *)
(* whitespace ("ws"), a run of [_A-Za-z0-9] starting with a letter or an   *)
(* underscore ("name"), or anything else ("other").                        *)
(***************************************************************************)
Tok(k, s) == [k |-> k, s |-> s]

\* FIND_DATASETS_QUERY of export_items_in_excel.py: starts with a newline.
FIND_DATASETS_QUERY ==
    <<Tok("ws", "\n"), Tok("name", "query"), Tok("ws", " "),
      Tok("name", "find_datasets"), Tok("other", "(")>>
\* LINK_CONTACT_TO_ITEM of migrate_contact.py.
LINK_CONTACT_TO_ITEM ==
    <<Tok("ws", "\n"), Tok("name", "mutation"), Tok("ws", " "),
      Tok("name", "link_contact_to_item"), Tok("other", "(")>>
\* The text of the docstring example of ZeeneaGraphQLClient: no leading
\* whitespace.
DOC_EXAMPLE_QUERY ==
    <<Tok("name", "query"), Tok("ws", " "), Tok("name", "my_query"),
      Tok("other", "(")>>
\* An anonymous query: no query/mutation keyword.
ANONYMOUS_QUERY == <<Tok("ws", "\n"), Tok("other", "{")>>

Queries ==
    {FIND_DATASETS_QUERY, LINK_CONTACT_TO_ITEM, DOC_EXAMPLE_QUERY, ANONYMOUS_QUERY}

\* OPERATION_NAME_RE.match(query): group(1) of
\* ^\s+(?:query|mutation)\s+([_A-Za-z][_A-Za-z0-9]*), or None.
OPERATION_NAME_RE(query) ==
    IF /\ Len(query) >= 4
       /\ query[1].k = "ws"
       /\ query[2].k = "name" /\ query[2].s \in {"query", "mutation"}
       /\ query[3].k = "ws"
       /\ query[4].k = "name"
    THEN Str(query[4].s)
    ELSE None

\* GqlResponse.has_errors
has_errors(resp) == Truthy(resp.errors)

\* Variant of has_error: unique is ignored.
has_error_any(resp, code, unique) ==
    IF Truthy(resp.errors) /\ Truthy(List(resp.errors.errors))
    THEN \E i \in 1..Len(resp.errors.errors) :
            resp.errors.errors[i].code = Str(code)
    ELSE FALSE

\* GqlResponse.has_error
has_error(resp, code, unique) ==
    IF Truthy(resp.errors) /\ Truthy(List(resp.errors.errors))
    THEN IF unique
         THEN /\ Len(resp.errors.errors) = 1
              /\ resp.errors.errors[1].code = Str(code)
         ELSE \E i \in 1..Len(resp.errors.errors) :
                 resp.errors.errors[i].code = Str(code)
    ELSE FALSE

(***************************************************************************)
(* The GraphQL client and one call of request.                             *)
(***************************************************************************)
VARIABLES
    max_retries,     \* ZeeneaGraphQLClient.max_retries
    client_uuid,     \* ZeeneaGraphQLClient.uuid
    client_state,    \* "Open" or "Closed": state of the httpx client
    pc,              \* position of the caller: "idle", "loop" (inside the
                     \* while loop of request), "returned", "raised"
    retries,         \* local variable retries of request
    payload,         \* local variable payload of request
    operation_name,  \* local variable operation_name of request
    response,        \* the last httpx response: [status_code, json]
    result,          \* what request returned or raised
    trace,           \* sleeps and POSTs of the current call, in order
    closes,          \* number of times the httpx client was closed
    calls,           \* number of request calls made on the client
    previous         \* outcome and retry count of the call made before the
                     \* current one (None before the second call)

clientVars ==
    <<max_retries, client_uuid, client_state, closes, pc, retries, payload,
      operation_name, response, result, trace, calls, previous>>

\* Status codes the server answers with.
Statuses == {200, 201, 204, 301, 400, 401, 404, 499, 500, 503, 599, 600}

SleepEvent(ms) == [e |-> "sleep", v |-> ms]
PostEvent(status) == [e |-> "post", v |-> status]

\* Variant of throttle: a constant 100 ms delay.
throttle_flat(n) ==
    IF n > 0 THEN <<SleepEvent(100)>> ELSE <<>>

\* __throttle: the sleeps it performs, in milliseconds (retries / 10 s).
throttle(n) ==
    IF n > 0 THEN <<SleepEvent((n * 1000) \div 10)>> ELSE <<>>

\* The payload request builds.
BuildPayload(query, variables) ==
    LET m == OPERATION_NAME_RE(query)
        keys == {"query", "variables"} \cup
                (IF Truthy(m) THEN {"operationName"} ELSE {})
    IN [k \in keys |-> CASE k = "query" -> query
                         [] k = "variables" -> variables
                         [] OTHER -> m]

\* httpx.RequestError as raised by request.
RequestError(status_code, attempts, opname, query, json) ==
    [t |-> "RequestError", status_code |-> status_code, attempts |-> attempts,
     operation_name |-> opname, query |-> query, json |-> json]

\* Variant of StatusBranch: client errors (4xx) are retried like server errors.
StatusBranch_retry4xx(status) ==
    IF status = 200 THEN "ok"
    ELSE IF 400 <= status /\ status < 600 THEN "retry"
    ELSE "fail"

\* The branch request takes on a status code: line 233 (200), line 235
\* (500 <= status < 600), line 240 (anything else).
StatusBranch(status) ==
    IF status = 200 THEN "ok"
    ELSE IF 500 <= status /\ status < 600 THEN "retry"
    ELSE "fail"

\* Variant of RetriesExhausted: one more attempt is allowed.
RetriesExhausted_strict(n, max) == n > max

\* Variant of RetriesExhausted: gives up one attempt early.
RetriesExhausted_early(n, max) == n + 1 >= max

\* Variant of RetriesExhausted: a failed POST is always retried once.
RetriesExhausted_floor(n, max) == n >= max /\ n >= 2

\* The test of line 237, on the counter already incremented.
RetriesExhausted(n, max) == n >= max

\* Variant of request: the retry counter is kept from the previous call, as
\* if it were an attribute of the client.
request_keep_retries(query, variables) ==
    /\ pc \in {"idle", "returned", "raised"}
    /\ payload' = BuildPayload(query, variables)
    /\ operation_name' = OPERATION_NAME_RE(query)
    /\ retries' = retries
    /\ trace' = <<>>
    /\ response' = None
    /\ result' = None
    /\ pc' = "loop"
    /\ calls' = calls + 1
    /\ UNCHANGED <<max_retries, client_uuid, client_state, closes>>

\* Lines 208-219 of request: build the payload, extract the operation name,
\* reset the local retry counter.  (previous is an observation kept by the
\* caller.)
request(query, variables) ==
    /\ pc \in {"idle", "returned", "raised"}
    /\ payload' = BuildPayload(query, variables)
    /\ operation_name' = OPERATION_NAME_RE(query)
    /\ retries' = 0
    /\ trace' = <<>>
    /\ response' = None
    /\ result' = None
    /\ pc' = "loop"
    /\ calls' = calls + 1
    /\ UNCHANGED <<max_retries, client_uuid, client_state, closes>>

\* One iteration of the while loop of request (lines 220-242): throttle,
\* POST, then return, count a retry, or raise.  The server's answer is
\* (status, json).
request_loop(status, json) ==
    LET branch == StatusBranch(status)
        n == retries + 1
    IN
    /\ pc = "loop"
    /\ trace' = trace \o throttle(retries) \o <<PostEvent(status)>>
    /\ response' = [status_code |-> status, json |-> json]
    /\ CASE branch = "ok" ->
              /\ pc' = "returned"
              /\ result' = GqlResponse(json)
              /\ retries' = retries
         [] branch = "retry" ->
              /\ retries' = n
              /\ IF RetriesExhausted(n, max_retries)
                 THEN /\ pc' = "raised"
                      /\ result' = RequestError(status, Num(n), operation_name,
                                                payload["query"], json)
                 ELSE /\ pc' = "loop"
                      /\ result' = result
         [] OTHER ->
              /\ pc' = "raised"
              /\ result' = RequestError(status, None, operation_name,
                                        payload["query"], json)
              /\ retries' = retries
    /\ UNCHANGED <<max_retries, client_uuid, client_state, closes, payload,
                   operation_name, calls, previous>>

\* close / __exit__: close the httpx client.
close ==
    /\ client_state' = "Closed"
    /\ closes' = closes + 1
    /\ UNCHANGED <<max_retries, client_uuid, pc, retries, payload,
                   operation_name, response, result, trace, calls, previous>>

(***************************************************************************)
(* Pages and cursors (zeenea/graphql.py, export_items_in_excel.py,         *)
(* migrate_contact.py).                                                    *)
(***************************************************************************)
\* Largest number of nodes in one page.
MaxNodes == 2

\* Variant of end_cursor: the hasNextPage flag is ignored.
end_cursor_ignore_flag(page_info) == page_info.v["endCursor"]

\* end_cursor: page_info['endCursor'] if page_info['hasNextPage'] else None
end_cursor(page_info) ==
    IF Truthy(page_info.v["hasNextPage"])
    THEN page_info.v["endCursor"]
    ELSE None

\* Variant of GqlPage: the cursor is not stored.
GqlPage_no_cursor(content, total_items, next_cursor) ==
    [t |-> "GqlPage", content |-> content, total_items |-> total_items,
     next_cursor |-> None]

\* GqlPage.__init__
GqlPage(content, total_items, next_cursor) ==
    [t |-> "GqlPage", content |-> content, total_items |-> total_items,
     next_cursor |-> next_cursor]

\* GqlPage.has_content
has_content(page) == Truthy(page.content)

\* The values a server puts under pageInfo.endCursor.
CursorValues == {None, Str(""), Str("c1"), Str("c2")}

PageInfo(hasNextPage, endCursor) ==
    Dict([hasNextPage |-> Bool(hasNextPage), endCursor |-> endCursor])

PageInfos == {PageInfo(b, c) : b \in BOOLEAN, c \in CursorValues}

\* The j-th node of page i of a dataset listing (fields of
\* FIND_DATASETS_QUERY); the second node of a page has no source name.
DatasetNode(i, j) ==
    LET id == ToString(i) \o "." \o ToString(j) IN
    Dict([key |-> Str("key" \o id), name |-> Str("name" \o id),
          sourceName |-> IF j = 2 THEN None ELSE List(<<Str("src" \o id)>>)])

\* The j-th node of page i of a contact's connection (fields of
\* LIST_CONTACT_ITEMS).
ContactNode(i, j) ==
    LET id == ToString(i) \o "." \o ToString(j) IN
    Dict([id |-> Str("id" \o id), type |-> Str("dataset"),
          key |-> Str("key" \o id), name |-> Str("name" \o id)])

\* A connection object: nodes, pageInfo, totalCount.
Connection(nodes, page_info, total) ==
    Dict([nodes |-> List(nodes), pageInfo |-> page_info, totalCount |-> Num(total)])

\* The item built by read_page of export_items_in_excel.py for one node.
export_item(item) ==
    Dict([key |-> item.v["key"], name |-> item.v["name"],
          sourceName |-> IF Truthy(Get(item, "sourceName"))
                         THEN item.v["sourceName"].v[1]
                         ELSE None])

\* read_page of export_items_in_excel.py (its value; what it prints is
\* read_page_output).
export_read_page(resp) ==
    IF IsNone(resp.data) THEN None
    ELSE LET items == resp.data.v["items"] IN
         GqlPage(List(MapSeq(export_item, items.v["nodes"].v)),
                 items.v["totalCount"],
                 end_cursor(items.v["pageInfo"]))

\* Item(id=node['id'], key=node['key']) of migrate_contact.py.
Item(node) == [t |-> "Item", id |-> node.v["id"], key |-> node.v["key"]]

\* read_page of migrate_contact.py.
migrate_read_page(resp) ==
    IF IsNone(resp.data) THEN None
    ELSE LET connection == Get(resp.data.v["item"], "connection") IN
         IF IsNone(connection) THEN None
         ELSE GqlPage(List(MapSeq(Item, connection.v["nodes"].v)),
                      connection.v["totalCount"],
                      end_cursor(connection.v["pageInfo"]))

\* What both read_page functions print: the error list on stderr when the
\* response has errors.
Line(stream, msg, arg) == [stream |-> stream, msg |-> msg, arg |-> arg]

read_page_output(resp) ==
    IF Truthy(resp.errors) THEN <<Line("stderr", "errors", resp.errors)>> ELSE <<>>

\* Nodes of page i when it holds k nodes.
DatasetNodes(i, k) == [j \in 1..k |-> DatasetNode(i, j)]
ContactNodes(i, k) == [j \in 1..k |-> ContactNode(i, j)]

\* Data of a 200 answer to FIND_DATASETS_QUERY / LIST_CONTACT_ITEMS.
DatasetsData(conn) == Dict([items |-> conn])
ContactData(conn) ==
    Dict([item |-> Dict([id |-> Str("contact"), type |-> Str("contact"),
                         name |-> Str("contact"), connection |-> conn])])

\* Errors a server sends next to (or instead of) a page.
PageErrorsValues == {Absent, List(<<ErrPlain>>)}

\* 200 bodies a server may answer FIND_DATASETS_QUERY with.
DatasetsBodies ==
    {MkBody(DatasetsData(Connection(DatasetNodes(1, k), pi, k)), e) :
        k \in 0..MaxNodes, pi \in PageInfos, e \in PageErrorsValues}
    \cup {MkBody(None, List(<<ErrPlain>>)), MkBody(Absent, List(<<ErrPlain>>))}

\* 200 bodies a server may answer LIST_CONTACT_ITEMS with; the connection
\* may be null.
ContactBodies ==
    {MkBody(ContactData(Connection(ContactNodes(1, k), pi, k)), e) :
        k \in 0..MaxNodes, pi \in PageInfos, e \in PageErrorsValues}
    \cup {MkBody(ContactData(None), e) : e \in PageErrorsValues}
    \cup {MkBody(None, List(<<ErrPlain>>))}

(***************************************************************************)
(* The scripts.  A script runs main(): it opens the client in a with       *)
(* block, issues requests one after the other and leaves the block by      *)
(* falling off its end, by sys.exit, or by an uncaught exception.          *)
(***************************************************************************)
\* Largest number of pages a server holds for one listing.
MaxPages == 2
\* Largest number of records (rows, data processes) in an input file.
MaxRecords == 2

\* Default of the max_retries parameter of ZeeneaGraphQLClient.__init__.
DefaultMaxRetries == 3
\* Default of the page_size setting.
DefaultPageSize == 20

VARIABLES
    script,        \* the script that runs
    spc,           \* position of main: "start", ..., "done" (normal end),
                   \* "exited" (sys.exit), "failed" (uncaught exception)
    exit_code,     \* exit code of the process, None while main runs
    output,        \* the lines printed by the last step of main
    requests,      \* the variables of every request call made so far
    next_cursor,   \* local next_cursor of the pagination loops
    item_list,     \* local item_list of export_items_in_excel.main
    excel,         \* the item list written to the Excel file, or None
    input,         \* content of the input file / arguments of the script
    records,       \* the list main iterates over
    idx,           \* index in records of the current iteration
    mutation_id,   \* local mutation_id of the current iteration
    mutations,     \* number of mutation ids generated so far
    cur_page,      \* migrate_contact: local page of copy_responsibility
    item_idx,      \* migrate_contact: index in page_items of the current item
    error_count,   \* migrate_contact: local error_count
    total_items,   \* migrate_contact: local total_items
    server_pages,  \* the pages the server holds, in order
    server_pos,    \* index of the last page the server has served
    server_loops,  \* the server answers every listing with hasNextPage = true
                   \* and the same endCursor
    current_dataset, \* send-dqm-results/main.py: local current_dataset
    dq_statements,   \* send-dqm-results/main.py: local dq_statements
    originator,      \* send-dqm-results/main.py: local originator
    trust_score,     \* send-dqm-results/main.py: local trust_score
    dashboard_link,  \* send-dqm-results/main.py: local dashboard_link
    after_cursor,    \* export-items-in-excel/main.py: local cursor
    items_list,      \* export-items-in-excel/main.py: local items_list
    fn_name,       \* name of the function applied on its own ("none" before)
    fn_arg,        \* its argument
    fn_out         \* its value

mainVars == <<script, spc, exit_code, output, requests>>
exportVars == <<item_list, excel>>
loopVars == <<input, records, idx, mutation_id, mutations>>
migrateVars == <<cur_page, item_idx, error_count, total_items>>
serverVars == <<server_pages, server_pos, server_loops>>
legacyVars ==
    <<current_dataset, dq_statements, originator, trust_score, dashboard_link,
      after_cursor, items_list>>
pureVars == <<fn_name, fn_arg, fn_out>>

scriptVars ==
    <<mainVars, next_cursor, exportVars, loopVars, migrateVars, serverVars,
      legacyVars>>

Scripts ==
    {"export_items_in_excel", "send_dqm_results", "send_field_lineage",
     "update_items_from_excel", "migrate_contact"}

\* Positions of main inside the with block.
InBlock ==
    {"entered", "first_page", "next_page", "loop", "await", "link"}

\* client.request(query, **variables) called by a script.
script_request(query, variables) ==
    /\ request(query, variables)
    /\ requests' = Append(requests, variables)
    /\ previous' = previous

\* with ZeeneaGraphQLClient(tenant=..., api_secret=...) as client:
\* __init__ with the default max_retries, then __enter__.
with_enter ==
    /\ script \in Scripts
    /\ spc = IF script = "migrate_contact" THEN "configured" ELSE "start"
    /\ client_state = "NotCreated"
    /\ client_state' = "Open"
    /\ max_retries' = DefaultMaxRetries
    /\ client_uuid' = "uuid-1"
    /\ spc' = "entered"
    /\ UNCHANGED <<closes, pc, retries, payload, operation_name, response,
                   result, trace, calls, previous>>
    /\ UNCHANGED <<script, exit_code, output, requests, next_cursor,
                   exportVars, loopVars, migrateVars, serverVars, legacyVars, pureVars>>

\* Exit code of the process for each way main ends ("exited" takes the
\* argument of sys.exit).
ExitCode(outcome, code) ==
    CASE outcome = "done" -> Num(0)
      [] outcome = "failed" -> Num(1)
      [] OTHER -> Num(code)

\* Variant of with_exit: the client is closed at the end of the block only,
\* not when the block is left by sys.exit or by an exception.
with_exit_leak(outcome, code) ==
    /\ spc' = outcome
    /\ exit_code' = ExitCode(outcome, code)
    /\ IF outcome = "done" THEN close ELSE UNCHANGED clientVars

\* Leaving the with block: __exit__ closes the client whatever the way the
\* block is left; outcome is "done", "exited" (sys.exit(code)) or "failed".
with_exit(outcome, code) ==
    /\ spc' = outcome
    /\ exit_code' = ExitCode(outcome, code)
    /\ close

\* Variant of request_failure: the failure is caught and main ends
\* normally.
request_failure_caught ==
    /\ spc \in InBlock
    /\ pc = "raised"
    /\ with_exit("done", 0)
    /\ UNCHANGED <<script, output, requests, next_cursor,
                   exportVars, loopVars, migrateVars, serverVars, legacyVars, pureVars>>

\* A failure raised by request is caught by no script: it leaves the with
\* block and ends main.
request_failure ==
    /\ spc \in InBlock
    /\ pc = "raised"
    /\ with_exit("failed", 1)
    /\ UNCHANGED <<script, output, requests, next_cursor,
                   exportVars, loopVars, migrateVars, serverVars, legacyVars, pureVars>>

(***************************************************************************)
(* export_items_in_excel.py                                                *)
(***************************************************************************)
export_filters ==
    List(<<Dict([property |-> Dict([ref |-> Str("sourceName"), isEmpty |-> Bool(FALSE)])])>>)

\* Variables of the request of the first page (line 66).
export_first_variables ==
    Dict([filters |-> export_filters, page_size |-> Num(DefaultPageSize)])
\* Variant of export_next_variables: the cursor sent is the one the loop
\* variable held before the page just read.
export_next_variables_stale(cursor) ==
    Dict([filters |-> export_filters, page_size |-> Num(DefaultPageSize),
          after |-> next_cursor])

\* Variables of the request of a later page (line 76).
export_next_variables(cursor) ==
    Dict([filters |-> export_filters, page_size |-> Num(DefaultPageSize),
          after |-> cursor])

\* main, line 66: request the first page.
export_first_request ==
    /\ script = "export_items_in_excel"
    /\ spc = "entered"
    /\ script_request(FIND_DATASETS_QUERY, export_first_variables)
    /\ spc' = "first_page"
    /\ output' = <<>>
    /\ UNCHANGED <<script, exit_code, next_cursor,
                   exportVars, loopVars, migrateVars, serverVars, legacyVars, pureVars>>

\* write_to_excel: the file is written when the list is not empty; a failed
\* write is caught and printed.
write_to_excel(items, out) ==
    IF Truthy(items)
    THEN \E ok \in BOOLEAN :
            /\ excel' = IF ok THEN items ELSE excel
            /\ output' = Append(out, IF ok
                                     THEN Line("stdout", "Excel file generated", None)
                                     ELSE Line("stdout", "Failed to write to Excel file", None))
    ELSE /\ excel' = excel
         /\ output' = out

\* main, lines 75-76 and 84: the test of the while loop, then either the
\* request of the next page or the end of the block.
export_loop(items, cursor, out) ==
    /\ item_list' = items
    /\ next_cursor' = cursor
    /\ IF Truthy(cursor)
       THEN /\ script_request(FIND_DATASETS_QUERY, export_next_variables(cursor))
            /\ spc' = "next_page"
            /\ output' = out
            /\ UNCHANGED <<excel, exit_code>>
       ELSE /\ write_to_excel(items, out)
            /\ with_exit("done", 0)
            /\ requests' = requests

\* main, lines 69-73 and 85-86: the first page was received.
export_first_page ==
    /\ script = "export_items_in_excel"
    /\ spc = "first_page"
    /\ pc = "returned"
    /\ LET page == export_read_page(result)
           out == read_page_output(result)
       IN IF Truthy(page)
          THEN export_loop(page.content, page.next_cursor,
                           Append(out, Line("stdout", "items found", page.total_items)))
          ELSE /\ output' = Append(out, Line("stdout", "No item found", None))
               /\ with_exit("done", 0)
               /\ UNCHANGED <<requests, next_cursor, exportVars>>
    /\ UNCHANGED <<script, loopVars, migrateVars, serverVars, legacyVars, pureVars>>

\* Variant of export_next_page: a later page without content ends main
\* without writing the items of the earlier pages.
export_next_page_drop ==
    /\ script = "export_items_in_excel"
    /\ spc = "next_page"
    /\ pc = "returned"
    /\ LET page == export_read_page(result)
           out == read_page_output(result)
       IN IF Truthy(page)
          THEN export_loop(List(item_list.v \o page.content.v), page.next_cursor, out)
          ELSE export_loop(List(<<>>), None,
                           Append(out, Line("stdout", "No item found in this page", None)))
    /\ UNCHANGED <<script, loopVars, migrateVars, serverVars, legacyVars, pureVars>>

\* main, lines 77-82: a later page was received.
export_next_page ==
    /\ script = "export_items_in_excel"
    /\ spc = "next_page"
    /\ pc = "returned"
    /\ LET page == export_read_page(result)
           out == read_page_output(result)
       IN IF Truthy(page)
          THEN export_loop(List(item_list.v \o page.content.v), page.next_cursor, out)
          ELSE export_loop(item_list, None,
                           Append(out, Line("stdout", "No item found in this page", None)))
    /\ UNCHANGED <<script, loopVars, migrateVars, serverVars, legacyVars, pureVars>>

(***************************************************************************)
(* send_dqm_results.py                                                     *)
(***************************************************************************)
UPDATE_DQ_STATEMENT_MUTATION ==
    <<Tok("ws", "\n"), Tok("name", "mutation"), Tok("ws", " "),
      Tok("name", "UpdateDataQualityStatement"), Tok("other", "(")>>

\* Names of the datasets of a CSV file, in sorted order.
DatasetNames == <<"ds1", "ds2">>

\* The values of the trust_score column: a number, not a number, or no
\* such column (Absent).
TrustScores == {Str("0.9"), Str("abc"), Absent}

\* float(s) succeeds.
IsFloat(s) == s \in {"0.9"}

\* Row number n of a CSV file, as csv.DictReader yields it; the second row
\* has an empty check_description.
DqmRow(dataset, score, n) ==
    LET all == [dataset |-> Str(dataset),
                originator |-> Str("originator"),
                trust_score |-> score,
                dashboard_link |-> Str("http://dashboard"),
                check_name |-> Str("check" \o ToString(n)),
                check_family |-> Str("family"),
                check_description |-> IF n = 2 THEN Str("") ELSE Str("description"),
                check_result |-> Str("PASSED"),
                check_lastexec |-> Str("2024-01-01"),
                check_link |-> Str("http://check")]
        keys == DOMAIN all \ (IF score = Absent THEN {"trust_score"} ELSE {})
    IN Dict([k \in keys |-> all[k]])

\* The CSV files: unreadable (None), or up to MaxRecords rows.
DqmInputs ==
    {None} \cup
    UNION {{List([i \in 1..n |-> DqmRow(DatasetNames[d[i]], ts[i], i)]) :
                d \in [1..n -> 1..Len(DatasetNames)], ts \in [1..n -> TrustScores]} :
            n \in 0..MaxRecords}

\* groupby(sorted(dqm, key=dataset), key=dataset): the groups from name
\* number r on, each with its key and its rows in file order.
RECURSIVE dqm_groups(_, _)
dqm_groups(rows, r) ==
    IF r > Len(DatasetNames) THEN <<>>
    ELSE LET group == SelectSeq(rows, LAMBDA row : row.v["dataset"] = Str(DatasetNames[r]))
         IN (IF group = <<>> THEN <<>>
             ELSE <<[key |-> Str(DatasetNames[r]), rows |-> group]>>)
            \o dqm_groups(rows, r + 1)

\* read_float: the number, or the InvalidColumnError it raises.
read_float(row, column) ==
    IF column \notin DOMAIN row.v
    THEN [t |-> "InvalidColumnError", message |-> "Missing column"]
    ELSE IF ~IsFloat(row.v[column].v)
    THEN [t |-> "InvalidColumnError", message |-> "Invalid value in column"]
    ELSE [t |-> "float", v |-> row.v[column].v]

\* The check built for one row (lines 58-65).
dqm_check(row) ==
    Dict([name |-> row.v["check_name"],
          family |-> row.v["check_family"],
          description |-> IF Truthy(row.v["check_description"])
                          THEN Dict([content |-> row.v["check_description"]])
                          ELSE None,
          result |-> row.v["check_result"],
          lastExecutionTime |-> row.v["check_lastexec"],
          checkLink |-> row.v["check_link"]])

\* The quality statement built for a group (lines 53-67).
dqm_quality(rows) ==
    Dict([originator |-> rows[1].v["originator"],
          trustScore |-> read_float(rows[1], "trust_score"),
          dashboardLink |-> rows[1].v["dashboard_link"],
          checks |-> List(MapSeq(dqm_check, rows))])

\* str(uuid.uuid1()): the n-th identifier generated.
NewMutationId(n) == Str("mutation-" \o ToString(n))

\* main, lines 40-44: read the input file; sys.exit when it cannot be read
\* or is empty.
dqm_read_input ==
    /\ script = "send_dqm_results"
    /\ spc = "entered"
    /\ IF IsNone(input)
       THEN /\ output' = <<Line("stderr", "ERROR unable to read csv file", None)>>
            /\ with_exit("exited", 1)
            /\ UNCHANGED <<records, idx>>
       ELSE IF ~Truthy(input)
       THEN /\ output' = <<Line("stdout", "No data quality statements found.", None)>>
            /\ with_exit("exited", 0)
            /\ UNCHANGED <<records, idx>>
       ELSE /\ records' = dqm_groups(input.v, 1)
            /\ idx' = 1
            /\ spc' = "loop"
            /\ output' = <<>>
            /\ UNCHANGED <<clientVars, exit_code>>
    /\ UNCHANGED <<script, requests, next_cursor, input, mutation_id, mutations,
                   exportVars, migrateVars, serverVars, legacyVars, pureVars>>

\* The loop with a break in place of the continue of line 70.
dqm_next_group_stop ==
    /\ script = "send_dqm_results"
    /\ spc = "loop"
    /\ IF idx > Len(records)
       THEN /\ with_exit("done", 0)
            /\ output' = <<>>
            /\ UNCHANGED <<requests, idx, mutation_id, mutations>>
       ELSE LET key == records[idx].key
                rows == records[idx].rows
                trust == read_float(rows[1], "trust_score")
            IN IF trust.t = "InvalidColumnError"
               THEN /\ output' = <<Line("stdout", "is invalid", key)>>
                    /\ with_exit("done", 0)
                    /\ UNCHANGED <<requests, idx, mutation_id, mutations>>
               ELSE /\ mutation_id' = NewMutationId(mutations + 1)
                    /\ mutations' = mutations + 1
                    /\ script_request(UPDATE_DQ_STATEMENT_MUTATION,
                                      Dict([mutation_id |-> NewMutationId(mutations + 1),
                                            ref |-> key,
                                            quality |-> dqm_quality(rows)]))
                    /\ spc' = "await"
                    /\ output' = <<>>
                    /\ UNCHANGED <<idx, exit_code>>
    /\ UNCHANGED <<script, next_cursor, input, records,
                   exportVars, migrateVars, serverVars, legacyVars, pureVars>>

\* main, lines 47-76: one iteration of the for loop up to the request, or
\* the end of the loop.
dqm_next_group ==
    /\ script = "send_dqm_results"
    /\ spc = "loop"
    /\ IF idx > Len(records)
       THEN /\ with_exit("done", 0)
            /\ output' = <<>>
            /\ UNCHANGED <<requests, idx, mutation_id, mutations>>
       ELSE LET key == records[idx].key
                rows == records[idx].rows
                trust == read_float(rows[1], "trust_score")
            IN IF trust.t = "InvalidColumnError"
               THEN /\ output' = <<Line("stdout", "is invalid", key)>>
                    /\ idx' = idx + 1
                    /\ UNCHANGED <<clientVars, spc, exit_code, requests,
                                   mutation_id, mutations>>
               ELSE /\ mutation_id' = NewMutationId(mutations + 1)
                    /\ mutations' = mutations + 1
                    /\ script_request(UPDATE_DQ_STATEMENT_MUTATION,
                                      Dict([mutation_id |-> NewMutationId(mutations + 1),
                                            ref |-> key,
                                            quality |-> dqm_quality(rows)]))
                    /\ spc' = "await"
                    /\ output' = <<>>
                    /\ UNCHANGED <<idx, exit_code>>
    /\ UNCHANGED <<script, next_cursor, input, records,
                   exportVars, migrateVars, serverVars, legacyVars, pureVars>>

\* main, lines 78-92: the response to the mutation of the current group.
dqm_response ==
    /\ script = "send_dqm_results"
    /\ spc = "await"
    /\ pc = "returned"
    /\ LET key == records[idx].key
           payload_data ==
               IF Truthy(result.data)
               THEN result.data.v["updateDataQualityStatementV2"]
               ELSE None
       IN IF Truthy(result.data) /\ IsNone(payload_data)
          THEN \* subscripting None: TypeError, caught by nobody
               /\ with_exit("failed", 1)
               /\ output' = <<>>
               /\ idx' = idx
          ELSE /\ idx' = idx + 1
               /\ spc' = "loop"
               /\ UNCHANGED <<clientVars, exit_code>>
               /\ output' =
                    IF Truthy(result.data)
                       /\ payload_data.v["clientMutationId"] # mutation_id
                    THEN <<Line("stderr", "ERROR inconsistent client mutation id",
                                payload_data.v["clientMutationId"])>>
                    ELSE IF has_error(result, "ITEM_NOT_FOUND", TRUE)
                    THEN <<Line("stdout", "not found", key)>>
                    ELSE IF has_errors(result)
                    THEN <<Line("stdout", "errors", result.errors)>>
                    ELSE <<Line("stdout", "updated successfully", key)>>
    /\ UNCHANGED <<script, requests, next_cursor, input, records, mutation_id,
                   mutations, exportVars, migrateVars, serverVars, legacyVars, pureVars>>

(***************************************************************************)
(* send_field_lineage.py                                                   *)
(***************************************************************************)
UPDATE_OPERATIONS_MUTATION ==
    <<Tok("ws", "\n"), Tok("name", "mutation"), Tok("ws", " "),
      Tok("name", "update_field_2_field_operations"), Tok("other", "(")>>

\* An operation of a data process in the input file.
LineageOperation ==
    Dict([description |-> Str("copy"),
          input_fields |-> List(<<Str("in")>>),
          output_fields |-> List(<<Str("out")>>)])

\* The values of the operations key of a data process: one operation, an
\* empty list, or no such key (Absent).
OperationsValues == {List(<<LineageOperation>>), List(<<>>), Absent}

\* Data process number n of the input file.
LineageProcess(operations, n) ==
    IF operations = Absent
    THEN Dict([key |-> Str("process" \o ToString(n))])
    ELSE Dict([key |-> Str("process" \o ToString(n)), operations |-> operations])

\* The JSON files: unreadable (None), an empty object, or an object with up
\* to MaxRecords data processes.
LineageInputs ==
    {None, Dict(<<>>)} \cup
    UNION {{Dict([dataprocesses |-> List([i \in 1..n |-> LineageProcess(ops[i], i)])]) :
                ops \in [1..n -> OperationsValues]} :
            n \in 0..MaxRecords}

\* The operation sent for an operation of the file (lines 55-59).
lineage_operation(op) ==
    Dict([description |-> Dict([content |-> op.v["description"]]),
          inputFieldKeys |-> op.v["input_fields"],
          outputFieldKeys |-> op.v["output_fields"]])

\* main, lines 40-45: read the input file; sys.exit when it cannot be read
\* or has no data process.
lineage_read_input ==
    /\ script = "send_field_lineage"
    /\ spc = "entered"
    /\ IF IsNone(input)
       THEN /\ output' = <<Line("stderr", "ERROR unable to read json file", None)>>
            /\ with_exit("exited", 1)
            /\ UNCHANGED <<records, idx>>
       ELSE IF ~Truthy(input) \/ ~Truthy(input.v["dataprocesses"])
       THEN /\ output' = <<Line("stdout", "No data processes in file", None)>>
            /\ with_exit("exited", 0)
            /\ UNCHANGED <<records, idx>>
       ELSE /\ records' = input.v["dataprocesses"].v
            /\ idx' = 1
            /\ spc' = "loop"
            /\ output' = <<>>
            /\ UNCHANGED <<clientVars, exit_code>>
    /\ UNCHANGED <<script, requests, next_cursor, input, mutation_id, mutations,
                   exportVars, migrateVars, serverVars, legacyVars, pureVars>>

\* main, lines 48-66: one iteration of the for loop up to the request, or
\* the end of the loop; a process without operations is passed over.
lineage_next_process ==
    /\ script = "send_field_lineage"
    /\ spc = "loop"
    /\ IF idx > Len(records)
       THEN /\ with_exit("done", 0)
            /\ output' = <<>>
            /\ UNCHANGED <<requests, idx, mutation_id, mutations>>
       ELSE LET process == records[idx]
                process_operations == Get(process, "operations")
            IN IF ~Truthy(process_operations)
               THEN /\ output' = <<>>
                    /\ idx' = idx + 1
                    /\ UNCHANGED <<clientVars, spc, exit_code, requests,
                                   mutation_id, mutations>>
               ELSE /\ mutation_id' = NewMutationId(mutations + 1)
                    /\ mutations' = mutations + 1
                    /\ script_request(UPDATE_OPERATIONS_MUTATION,
                                      Dict([mutation_id |-> NewMutationId(mutations + 1),
                                            ref |-> process.v["key"],
                                            operations |->
                                                List(MapSeq(lineage_operation,
                                                            process_operations.v))]))
                    /\ spc' = "await"
                    /\ output' = <<>>
                    /\ UNCHANGED <<idx, exit_code>>
    /\ UNCHANGED <<script, next_cursor, input, records,
                   exportVars, migrateVars, serverVars, legacyVars, pureVars>>

\* main, lines 68-82: the response to the mutation of the current process.
lineage_response ==
    /\ script = "send_field_lineage"
    /\ spc = "await"
    /\ pc = "returned"
    /\ LET key == records[idx].v["key"]
           payload_data ==
               IF Truthy(result.data)
               THEN result.data.v["updateDataProcessOperationsV2"]
               ELSE None
       IN IF Truthy(result.data) /\ IsNone(payload_data)
          THEN \* subscripting None: TypeError, caught by nobody
               /\ with_exit("failed", 1)
               /\ output' = <<>>
               /\ idx' = idx
          ELSE /\ idx' = idx + 1
               /\ spc' = "loop"
               /\ UNCHANGED <<clientVars, exit_code>>
               /\ output' =
                    IF Truthy(result.data)
                       /\ payload_data.v["clientMutationId"] # mutation_id
                    THEN <<Line("stderr", "ERROR inconsistent client mutation id",
                                payload_data.v["clientMutationId"])>>
                    ELSE IF has_error(result, "ITEM_NOT_FOUND", TRUE)
                    THEN <<Line("stdout", "not found", key)>>
                    ELSE IF has_errors(result)
                    THEN <<Line("stdout", "errors", result.errors)>>
                    ELSE <<Line("stdout", "updated", key)>>
    /\ UNCHANGED <<script, requests, next_cursor, input, records, mutation_id,
                   mutations, exportVars, migrateVars, serverVars, legacyVars, pureVars>>

(***************************************************************************)
(* update_items_from_excel.py                                              *)
(***************************************************************************)
UPDATE_ITEM_MUTATION ==
    <<Tok("ws", "\n"), Tok("name", "mutation"), Tok("ws", " "),
      Tok("name", "update_description_and_domain"), Tok("other", "(")>>

\* The values of the "description type" column: a valid type, an invalid
\* one, or no such column (Absent).
DescriptionTypes == {Str("html"), Str("md"), Absent}

\* str.upper on the description types.
Upper(s) ==
    CASE s = "html" -> "HTML"
      [] s = "md" -> "MD"
      [] s = "raw" -> "RAW"
      [] OTHER -> s

\* Row number n of the Excel sheet, paired with its line number (n + 1 is
\* idx + 2 for the 0-based idx of pandas).
ExcelRow(desc_type, n) ==
    LET all == [key |-> Str("key" \o ToString(n)),
                domain |-> Str("domain" \o ToString(n)),
                description |-> Str("description" \o ToString(n)),
                type |-> desc_type]
        keys == DOMAIN all \ (IF desc_type = Absent THEN {"type"} ELSE {})
    IN [row_idx |-> n + 1,
        row |-> Dict([k \in keys |-> all[k]])]

\* The Excel files: unreadable (None), or up to MaxRecords rows.
ExcelInputs ==
    {None} \cup
    UNION {{List([i \in 1..n |-> ExcelRow(dt[i], i)]) :
                dt \in [1..n -> DescriptionTypes]} :
            n \in 0..MaxRecords}

\* Locals of one iteration of main (lines 57-60); the key "type" stands for
\* the column "description type".
update_domain(row) == IF "domain" \in DOMAIN row.v THEN List(<<row.v["domain"]>>) ELSE List(<<>>)
update_desc(row) == IF "description" \in DOMAIN row.v THEN row.v["description"] ELSE Str("")
update_desc_type(row) == IF "type" \in DOMAIN row.v THEN Str(Upper(row.v["type"].v)) ELSE Str("RAW")

\* main, line 52: read the Excel file; sys.exit when it cannot be read.
update_read_input ==
    /\ script = "update_items_from_excel"
    /\ spc = "entered"
    /\ IF IsNone(input)
       THEN /\ output' = <<Line("stdout", "Failed to read input file", None)>>
            /\ with_exit("exited", 1)
            /\ UNCHANGED <<records, idx>>
       ELSE /\ records' = input.v
            /\ idx' = 1
            /\ spc' = "loop"
            /\ output' = <<>>
            /\ UNCHANGED <<clientVars, exit_code>>
    /\ UNCHANGED <<script, requests, next_cursor, input, mutation_id, mutations,
                   exportVars, migrateVars, serverVars, legacyVars, pureVars>>

\* main, lines 55-65: one iteration of the for loop up to the request, or
\* the end of the loop; an invalid description type is printed and sent.
update_next_row ==
    /\ script = "update_items_from_excel"
    /\ spc = "loop"
    /\ IF idx > Len(records)
       THEN /\ with_exit("done", 0)
            /\ output' = <<>>
            /\ requests' = requests
       ELSE LET row == records[idx].row
                desc_type == update_desc_type(row)
            IN /\ output' = IF desc_type.v \notin {"RAW", "HTML"}
                            THEN <<Line("stdout", "has invalid description type", desc_type)>>
                            ELSE <<>>
               /\ script_request(UPDATE_ITEM_MUTATION,
                                 Dict([ref |-> row.v["key"],
                                       descType |-> desc_type,
                                       description |-> update_desc(row),
                                       domain |-> update_domain(row)]))
               /\ spc' = "await"
               /\ exit_code' = exit_code
    /\ UNCHANGED <<script, next_cursor, loopVars,
                   exportVars, migrateVars, serverVars, legacyVars, pureVars>>

\* main, lines 67-80: the response to the mutation of the current row.
update_response ==
    /\ script = "update_items_from_excel"
    /\ spc = "await"
    /\ pc = "returned"
    /\ LET row == records[idx].row
           key == row.v["key"]
           error_lines ==
               IF has_error(result, "ITEM_NOT_FOUND", TRUE)
               THEN <<Line("stdout", "not found", key)>>
               ELSE IF has_errors(result)
               THEN <<Line("stderr", "errors", result.errors)>>
               ELSE <<>>
           update_item == IF Truthy(result.data) THEN result.data.v["updateItem"] ELSE None
           new_item == IF IsNone(update_item) THEN None ELSE update_item.v["item"]
       IN IF Truthy(result.data) /\ IsNone(new_item)
          THEN \* subscripting None: TypeError, caught by nobody
               /\ with_exit("failed", 1)
               /\ output' = error_lines
               /\ idx' = idx
          ELSE /\ idx' = idx + 1
               /\ spc' = "loop"
               /\ UNCHANGED <<clientVars, exit_code>>
               /\ output' =
                    error_lines
                    \o (IF Truthy(result.data)
                           /\ update_desc(row) #
                                new_item.v["descriptionV2"].v["content"].v["content"]
                        THEN <<Line("stdout", "the description was not updated", key)>>
                        ELSE <<>>)
                    \o (IF Truthy(result.data)
                           /\ update_domain(row) # new_item.v["domain"]
                        THEN <<Line("stdout", "the domain was not updated", key)>>
                        ELSE <<>>)
    /\ UNCHANGED <<script, requests, next_cursor, input, records, mutation_id,
                   mutations, exportVars, migrateVars, serverVars, legacyVars, pureVars>>

(***************************************************************************)
(* migrate_contact.py                                                      *)
(***************************************************************************)
LIST_CONTACT_ITEMS ==
    <<Tok("ws", "\n"), Tok("name", "query"), Tok("ws", " "),
      Tok("name", "list_contact_items"), Tok("other", "(")>>

\* The command lines and configurations: --from, --to, and the
\* responsibilities setting (a list or a single name).
MigrateInputs ==
    {[from |-> Str("old@acme"), to |-> t, responsibilities |-> r] :
        t \in {Str("old@acme"), Str("new@acme")},
        r \in {List(<<Str("curator")>>), Str("steward")}}

\* load_responsibilities: a single name becomes a list, and curator is put
\* first when it is missing.
load_responsibilities(responsibilities) ==
    LET as_list == IF responsibilities.t = "list"
                   THEN responsibilities.v
                   ELSE <<responsibilities>>
    IN IF \E i \in 1..Len(as_list) : as_list[i] = Str("curator")
       THEN as_list
       ELSE <<Str("curator")>> \o as_list

\* main, lines 80-90: the arguments and the configuration; sys.exit(1),
\* before any client exists, when both contacts are the same.
migrate_main ==
    /\ script = "migrate_contact"
    /\ spc = "start"
    /\ IF input.from = input.to
       THEN /\ output' = <<Line("stdout", "You can't copy a contact to itself", None)>>
            /\ spc' = "exited"
            /\ exit_code' = Num(1)
            /\ records' = records
       ELSE /\ records' = load_responsibilities(input.responsibilities)
            /\ spc' = "configured"
            /\ output' = <<>>
            /\ exit_code' = exit_code
    /\ idx' = 1
    /\ UNCHANGED <<clientVars, script, requests, next_cursor, input, mutation_id,
                   mutations, exportVars, migrateVars, serverVars, legacyVars, pureVars>>

\* Variables of the listing requests (lines 122 and 132-136).
migrate_first_variables(responsibility) ==
    Dict([ref |-> input.from, responsibility |-> responsibility,
          page_size |-> Num(DefaultPageSize)])
migrate_next_variables(responsibility, cursor) ==
    Dict([ref |-> input.from, responsibility |-> responsibility,
          page_size |-> Num(DefaultPageSize), after |-> cursor])

\* main, lines 94-95, and copy_responsibility, lines 118-122: the next
\* responsibility and the request of its first page, or the end of the
\* loop.
migrate_next_responsibility ==
    /\ script = "migrate_contact"
    /\ spc \in {"entered", "loop"}
    /\ IF idx > Len(records)
       THEN /\ with_exit("done", 0)
            /\ output' = <<>>
            /\ UNCHANGED <<requests, error_count, total_items>>
       ELSE /\ error_count' = 0
            /\ total_items' = 0
            /\ script_request(LIST_CONTACT_ITEMS, migrate_first_variables(records[idx]))
            /\ spc' = "first_page"
            /\ output' = <<>>
            /\ exit_code' = exit_code
    /\ UNCHANGED <<script, next_cursor, loopVars, cur_page, item_idx,
                   exportVars, serverVars, legacyVars, pureVars>>

\* Variant of migrate_link_request: the first item of the page is linked
\* again in place of item number i.
migrate_link_request_first(items, i) ==
    LET responsibility == IF records[idx] = Str("curator")
                          THEN Str("curators") ELSE records[idx]
    IN script_request(LINK_CONTACT_TO_ITEM,
                      Dict([contact_ref |-> input.to,
                            responsibility |-> responsibility,
                            item_ref |-> items[1].id]))

\* link_contact_to_item, lines 166-172: the request that links the new
\* contact to item number i of the page.
migrate_link_request(items, i) ==
    LET responsibility == IF records[idx] = Str("curator")
                          THEN Str("curators") ELSE records[idx]
    IN script_request(LINK_CONTACT_TO_ITEM,
                      Dict([contact_ref |-> input.to,
                            responsibility |-> responsibility,
                            item_ref |-> items[i].id]))

\* copy_responsibility, lines 148-152: the end of the copy of one
\* responsibility; main goes on with the next one.
migrate_end_copy(out, errors, total) ==
    /\ output' = out \o <<Line("stdout", "End of the copy", Num(total))>>
                     \o (IF errors # 0
                         THEN <<Line("stderr", "copy errors", Num(errors))>>
                         ELSE <<>>)
    /\ idx' = idx + 1
    /\ spc' = "loop"
    /\ UNCHANGED <<clientVars, exit_code, requests>>

\* read_page of migrate_contact.py raises AttributeError when data['item']
\* is null (item.get on None).
migrate_read_page_raises(resp) ==
    ~IsNone(resp.data) /\ IsNone(resp.data.v["item"])

\* copy_responsibility, lines 131-132 and 148: the test of the while loop
\* with the cursor of the page just processed.
migrate_loop(cursor, out, errors) ==
    /\ next_cursor' = cursor
    /\ IF Truthy(cursor)
       THEN /\ script_request(LIST_CONTACT_ITEMS,
                              migrate_next_variables(records[idx], cursor))
            /\ spc' = "next_page"
            /\ output' = out
            /\ UNCHANGED <<idx, exit_code>>
       ELSE migrate_end_copy(out, errors, total_items)

\* copy_responsibility, lines 123-127 and 145-146: the first page was
\* received.
migrate_first_page ==
    /\ script = "migrate_contact"
    /\ spc = "first_page"
    /\ pc = "returned"
    /\ IF migrate_read_page_raises(result)
       THEN /\ with_exit("failed", 1)
            /\ output' = read_page_output(result)
            /\ UNCHANGED <<requests, next_cursor, idx, cur_page, item_idx, total_items>>
       ELSE LET new_page == migrate_read_page(result)
                out == read_page_output(result)
            IN /\ cur_page' = new_page
               /\ IF Truthy(new_page)
                  THEN /\ total_items' = new_page.total_items.v
                       /\ output' = Append(out, Line("stdout", "Copy contact relations",
                                                     new_page.total_items))
                       /\ item_idx' = 1
                       /\ migrate_link_request(new_page.content.v, 1)
                       /\ spc' = "link"
                       /\ UNCHANGED <<next_cursor, idx, exit_code>>
                  ELSE /\ migrate_end_copy(Append(out, Line("stdout", "No link found", None)),
                                           error_count, total_items)
                       /\ UNCHANGED <<next_cursor, item_idx, total_items>>
    /\ UNCHANGED <<script, input, records, mutation_id, mutations, error_count,
                   exportVars, serverVars, legacyVars, pureVars>>

\* link_contact_to_item, lines 173-183, then the rest of the for loop over
\* the page (lines 126-128 and 138-140).
migrate_link_response ==
    /\ script = "migrate_contact"
    /\ spc = "link"
    /\ pc = "returned"
    /\ LET failed == has_errors(result)
           errors == IF failed THEN error_count + 1 ELSE error_count
           out == <<Line("stdout", "Copied link", cur_page.content.v[item_idx].key)>>
                  \o (IF failed
                      THEN <<Line("stderr", "Failed to link", result.errors)>>
                      ELSE <<>>)
       IN /\ error_count' = errors
          /\ IF item_idx < Len(cur_page.content.v)
             THEN /\ item_idx' = item_idx + 1
                  /\ migrate_link_request(cur_page.content.v, item_idx + 1)
                  /\ output' = out
                  /\ UNCHANGED <<spc, next_cursor, idx, exit_code>>
             ELSE /\ item_idx' = item_idx
                  /\ migrate_loop(cur_page.next_cursor, out, errors)
    /\ UNCHANGED <<script, input, records, mutation_id, mutations, cur_page,
                   total_items, exportVars, serverVars, legacyVars, pureVars>>

\* copy_responsibility, lines 137-143: a later page was received.
migrate_next_page ==
    /\ script = "migrate_contact"
    /\ spc = "next_page"
    /\ pc = "returned"
    /\ IF migrate_read_page_raises(result)
       THEN /\ with_exit("failed", 1)
            /\ output' = read_page_output(result)
            /\ UNCHANGED <<requests, next_cursor, idx, cur_page, item_idx>>
       ELSE LET new_page == migrate_read_page(result)
                out == read_page_output(result)
            IN /\ cur_page' = new_page
               /\ IF Truthy(new_page)
                  THEN /\ item_idx' = 1
                       /\ migrate_link_request(new_page.content.v, 1)
                       /\ spc' = "link"
                       /\ output' = out
                       /\ UNCHANGED <<next_cursor, idx, exit_code>>
                  ELSE /\ item_idx' = item_idx
                       /\ migrate_loop(None,
                                       Append(out, Line("stdout", "No item found in this page", None)),
                                       error_count)
    /\ UNCHANGED <<script, input, records, mutation_id, mutations, error_count,
                   total_items, exportVars, serverVars, legacyVars, pureVars>>

(***************************************************************************)
(* The server of the scripts.                                              *)
(***************************************************************************)
\* Status codes the server answers a script with: one per branch of
\* request.
ScriptStatuses == {200, 404, 503}

\* The chains of n pages a server may hold: page i has up to MaxNodes nodes;
\* every page but the last has hasNextPage = true and a cursor; the last
\* has hasNextPage = false.
PageChoices(n, i) ==
    {[k |-> k, cursor |-> c] :
        k \in 0..MaxNodes,
        c \in IF i < n THEN {Str(""), Str("c" \o ToString(i))}
                       ELSE {None, Str("c" \o ToString(i))}}

AllPageChoices(n) == UNION {PageChoices(n, i) : i \in 1..n}

Chains ==
    UNION {{ch \in [1..n -> AllPageChoices(n)] :
                \A i \in 1..n : ch[i] \in PageChoices(n, i)} :
            n \in 1..MaxPages}

\* Total number of nodes of a chain.
RECURSIVE ChainTotal(_, _)
ChainTotal(ch, i) == IF i = 0 THEN 0 ELSE ch[i].k + ChainTotal(ch, i - 1)

\* The connection object of page i of a dataset listing.
DatasetsPage(ch, i) ==
    Connection(DatasetNodes(i, ch[i].k),
               PageInfo(i < Len(ch), ch[i].cursor),
               ChainTotal(ch, Len(ch)))

\* The page a listing request asks for: the first one without after, the
\* one after the last page served otherwise.
RequestedPage ==
    IF "after" \in DOMAIN payload["variables"].v THEN server_pos + 1 ELSE 1

\* 200 bodies the server answers a listing request with: the requested page
\* of the chain, alone or with errors, or errors without data.
DatasetsAnswers ==
    (IF RequestedPage <= Len(server_pages)
     THEN {MkBody(DatasetsData(DatasetsPage(server_pages, RequestedPage)), e) :
              e \in PageErrorsValues}
     ELSE {})
    \cup {MkBody(None, List(<<ErrPlain>>))}

\* The connection object of page i of a contact's items.
ContactPage(ch, i) ==
    Connection(ContactNodes(i, ch[i].k),
               PageInfo(i < Len(ch), ch[i].cursor),
               ChainTotal(ch, Len(ch)))

\* 200 bodies the server answers LIST_CONTACT_ITEMS with: the requested
\* page, alone or with errors; a contact without that connection; an
\* unknown contact (item is null); errors without data.
ContactAnswers ==
    (IF RequestedPage <= Len(server_pages)
     THEN {MkBody(ContactData(ContactPage(server_pages, RequestedPage)), e) :
              e \in PageErrorsValues}
     ELSE {})
    \cup {MkBody(ContactData(None), Absent),
          MkBody(Dict([item |-> None]), List(<<ErrNotFound>>)),
          MkBody(None, List(<<ErrPlain>>))}

\* Errors a server sends in answer to a mutation.
MutationErrorsValues ==
    {Absent, List(<<ErrNotFound>>), List(<<ErrPlain, ErrNotFound>>)}

\* 200 bodies the server answers a mutation that echoes clientMutationId
\* with: no data, a null payload, a payload echoing the id sent, a payload
\* with another id; each alone or with errors.
MutationAnswers(field) ==
    {MkBody(d, e) :
        d \in {None,
               Dict([k \in {field} |-> None]),
               Dict([k \in {field} |->
                        Dict([clientMutationId |-> Get(payload["variables"], "mutation_id")])]),
               Dict([k \in {field} |-> Dict([clientMutationId |-> Str("mutation-0")])])},
        e \in MutationErrorsValues}

\* The item the server returns for UPDATE_ITEM_MUTATION, with description d.
UpdatedItem(d) ==
    Dict([key |-> payload["variables"].v["ref"],
          descriptionV2 |-> Dict([content |-> Dict([content |-> d])]),
          domain |-> payload["variables"].v["domain"]])

\* 200 bodies the server answers UPDATE_ITEM_MUTATION with: no data, a null
\* payload, a null item, the item updated, the item with its old
\* description; each alone or with errors.
UpdateItemAnswers ==
    {MkBody(d, e) :
        d \in {None,
               Dict([updateItem |-> None]),
               Dict([updateItem |-> Dict([item |-> None])]),
               Dict([updateItem |->
                        Dict([item |-> UpdatedItem(payload["variables"].v["description"])])]),
               Dict([updateItem |-> Dict([item |-> UpdatedItem(Str("old description"))])])},
        e \in MutationErrorsValues}

\* 200 bodies the server answers LINK_CONTACT_TO_ITEM with.
LinkAnswers ==
    {MkBody(d, e) :
        d \in {None, Dict([updateItem |-> Dict([clientMutationId |-> None])])},
        e \in PageErrorsValues}

\* 200 bodies the server answers the current request with.
ServerBodies ==
    CASE payload["query"] = FIND_DATASETS_QUERY -> DatasetsAnswers
      [] payload["query"] = LIST_CONTACT_ITEMS -> ContactAnswers
      [] payload["query"] = UPDATE_DQ_STATEMENT_MUTATION ->
            MutationAnswers("updateDataQualityStatementV2")
      [] payload["query"] = UPDATE_OPERATIONS_MUTATION ->
            MutationAnswers("updateDataProcessOperationsV2")
      [] payload["query"] = UPDATE_ITEM_MUTATION -> UpdateItemAnswers
      [] payload["query"] = LINK_CONTACT_TO_ITEM -> LinkAnswers
      [] OTHER -> GenericBodies

\* The request was answered by a page of the chain.
IsPageAnswer(status, json) ==
    /\ status = 200
    /\ payload["query"] \in {FIND_DATASETS_QUERY, LIST_CONTACT_ITEMS}
    /\ ~IsNone(Get(json, "data"))
    /\ payload["query"] = LIST_CONTACT_ITEMS =>
          /\ ~IsNone(json.v["data"].v["item"])
          /\ ~IsNone(json.v["data"].v["item"].v["connection"])

\* The server answers the POST of the current attempt.
ScriptServerAnswer ==
    /\ pc = "loop"
    /\ \E status \in ScriptStatuses :
        \E json \in (IF status = 200 THEN ServerBodies ELSE FailureBodies) :
            /\ request_loop(status, json)
            /\ server_pos' = IF IsPageAnswer(status, json)
                             THEN RequestedPage ELSE server_pos
            /\ UNCHANGED <<mainVars, next_cursor, exportVars, loopVars,
                           migrateVars, server_pages, server_loops,
                           legacyVars, pureVars>>


(***************************************************************************)
(* The legacy scripts: update-items-from-excel/main.py,                    *)
(* send-dqm-results/main.py, export-items-in-excel/main.py, and the        *)
(* request function of their graphql module.                               *)
(***************************************************************************)
\* Largest number of pages a server that loops is asked for.
MaxFetches == 3

LegacyScripts ==
    {"update-items-from-excel/main.py", "send-dqm-results/main.py",
     "export-items-in-excel/main.py"}

\* graphql.request: one POST; the data of the body when the status is 200,
\* httpx.RequestError otherwise. No retry, and the errors of the body are
\* dropped.
legacy_request(status, json) ==
    IF status = 200
    THEN Get(json, "data")
    ELSE [t |-> "RequestError", status_code |-> status]

\* An exception that main does not catch ends the process.
legacy_raise ==
    /\ spc' = "failed"
    /\ exit_code' = Num(1)
    /\ output' = <<>>

\* What a server answers a legacy request with: a status and a body.
LegacyAnswers(datas) ==
    {<<200, MkBody(d, e)>> : d \in datas, e \in {Absent, List(<<ErrNotFound>>)}}
    \cup {<<status, json>> : status \in ScriptStatuses \ {200}, json \in FailureBodies}

(***************************************************************************)
(* update-items-from-excel/main.py                                         *)
(***************************************************************************)
\* The Excel files: unreadable (None), or up to MaxRecords rows.
LegacyExcelInputs ==
    {None} \cup
    {List([i \in 1..n |-> Dict([key |-> Str("key" \o ToString(i)),
                                description |-> Str("description"),
                                domain |-> Str("domain")])]) :
        n \in 0..MaxRecords}

\* What the server returns as data for read_item_query and for
\* update_item_mutation.
LegacyItemDatas(key) ==
    {None, Dict([item |-> None]), Dict([item |-> Dict([key |-> key])])}

\* The arguments of the update mutation (line 47).
legacy_update_args(row) ==
    Dict([input |->
        Dict([ref |-> row.v["key"],
              updates |->
                  Dict([description |-> Dict([content |-> row.v["description"]]),
                        properties |->
                            List(<<Dict([command |-> Str("REPLACE"),
                                         ref |-> Str("domain"),
                                         value |-> row.v["domain"]])>>)])])])

\* main, lines 19-30: read the Excel file.
legacy_update_read_input ==
    /\ script = "update-items-from-excel/main.py"
    /\ spc = "start"
    /\ IF IsNone(input)
       THEN /\ output' = <<Line("stdout", "Oops, unable to read input file", None)>>
            /\ spc' = "exited"
            /\ exit_code' = Num(0)
            /\ UNCHANGED <<records, idx>>
       ELSE /\ records' = input.v
            /\ idx' = 1
            /\ spc' = "loop"
            /\ output' = <<>>
            /\ UNCHANGED exit_code
    /\ UNCHANGED <<clientVars, script, requests, next_cursor, input, mutation_id,
                   mutations, exportVars, migrateVars, serverVars, legacyVars,
                   pureVars>>

\* main, lines 32-41: the read-item query of the current row, or the end of
\* the loop.
legacy_update_read_item ==
    /\ script = "update-items-from-excel/main.py"
    /\ spc = "loop"
    /\ IF idx > Len(records)
       THEN /\ spc' = "done"
            /\ exit_code' = Num(0)
            /\ output' = <<>>
            /\ UNCHANGED requests
       ELSE LET key == records[idx].v["key"] IN
            \E answer \in LegacyAnswers(LegacyItemDatas(key)) :
              LET item == legacy_request(answer[1], answer[2]) IN
              /\ requests' = Append(requests, Dict([ref |-> key]))
              /\ IF item.t = "RequestError"
                 THEN legacy_raise
                 ELSE /\ output' = IF IsNone(item)
                                   THEN <<Line("stdout", "wasn't found. Skipping it!", key)>>
                                   ELSE <<>>
                      \* pass: the body of the loop goes on
                      /\ spc' = "update"
                      /\ UNCHANGED exit_code
    /\ UNCHANGED <<clientVars, script, next_cursor, loopVars, exportVars,
                   migrateVars, serverVars, legacyVars, pureVars>>

\* main, lines 43-52: the update mutation of the current row.
legacy_update_item ==
    /\ script = "update-items-from-excel/main.py"
    /\ spc = "update"
    /\ LET row == records[idx] IN
       \E answer \in LegacyAnswers(LegacyItemDatas(row.v["key"])) :
         LET item == legacy_request(answer[1], answer[2]) IN
         /\ requests' = Append(requests, legacy_update_args(row))
         /\ IF item.t = "RequestError"
            THEN legacy_raise
            ELSE /\ output' = IF IsNone(item)
                              THEN <<Line("stdout", "wasn't updated", row.v["key"])>>
                              ELSE <<>>
                 /\ spc' = "loop"
                 /\ UNCHANGED exit_code
    /\ idx' = IF spc' = "loop" THEN idx + 1 ELSE idx
    /\ UNCHANGED <<clientVars, script, next_cursor, input, records, mutation_id,
                   mutations, exportVars, migrateVars, serverVars, legacyVars,
                   pureVars>>

(***************************************************************************)
(* send-dqm-results/main.py                                                *)
(***************************************************************************)
\* Row number n of the CSV file, as iterrows yields it; originator and
\* trust_score are those of the dataset.
LegacyDqmRow(d, n) ==
    Dict([dataset |-> Str(DatasetNames[d]),
          originator |-> Str("originator-" \o DatasetNames[d]),
          trust_score |-> Str("0." \o ToString(d)),
          dashboard_link |-> Str("http://dashboard/" \o DatasetNames[d]),
          check_name |-> Str("check" \o ToString(n)),
          check_family |-> Str("family"),
          check_description |-> Str("description"),
          check_result |-> Str("PASSED"),
          check_lastexec |-> Str("2024-01-01"),
          check_link |-> Str("http://check")])

\* The rows of a file are grouped by dataset: a dataset does not come back
\* after another one.
Grouped(d, n) ==
    \A i \in 1..n : \A j \in i..n : d[i] = d[j] => \A k \in i..j : d[k] = d[i]

\* The CSV files: unreadable (None), or up to MaxRecords rows grouped by
\* dataset.
LegacyDqmInputs ==
    {None} \cup
    UNION {{List([i \in 1..n |-> LegacyDqmRow(d[i], i)]) :
                d \in {f \in [1..n -> 1..Len(DatasetNames)] : Grouped(f, n)}} :
            n \in 0..MaxRecords}

\* The statement appended for one row (line 57).
legacy_dq_statement(row) ==
    Dict([name |-> row.v["check_name"],
          family |-> row.v["check_family"],
          description |-> Dict([content |-> row.v["check_description"]]),
          result |-> row.v["check_result"],
          lastExecutionTime |-> row.v["check_lastexec"],
          checkLink |-> row.v["check_link"]])

\* The arguments of the update mutation (lines 48 and 61).
legacy_dqm_args(key, orig, score, link, checks) ==
    Dict([ref |-> key,
          quality |-> Dict([originator |-> orig, trustScore |-> score,
                            dashboardLink |-> link, checks |-> List(checks)])])

\* What the server returns as data for update_dq_statement_mutation.
LegacyDqmDatas ==
    {None, Dict([updateDataQualityStatementV2 |-> Dict([clientMutationId |-> None])])}

\* main, lines 18-34: read the CSV file.
legacy_dqm_read_input ==
    /\ script = "send-dqm-results/main.py"
    /\ spc = "start"
    /\ IF IsNone(input)
       THEN /\ output' = <<Line("stdout", "Oops, unable to read input file", None)>>
            /\ spc' = "exited"
            /\ exit_code' = Num(0)
            /\ UNCHANGED <<records, idx>>
       ELSE /\ records' = input.v
            /\ idx' = 1
            /\ spc' = "loop"
            /\ output' = <<>>
            /\ UNCHANGED exit_code
    /\ UNCHANGED <<clientVars, script, requests, next_cursor, input, mutation_id,
                   mutations, exportVars, migrateVars, serverVars, legacyVars,
                   pureVars>>

\* main, lines 36-57: one iteration of the for loop.
legacy_dqm_row ==
    /\ script = "send-dqm-results/main.py"
    /\ spc = "loop"
    /\ idx <= Len(records)
    /\ LET row == records[idx]
           key == row.v["dataset"]
           first == Len(current_dataset.v) = 0
           \* lines 40-44
           dataset1 == IF first THEN key ELSE current_dataset
           originator1 == IF first THEN row.v["originator"] ELSE originator
           trust_score1 == IF first THEN row.v["trust_score"] ELSE trust_score
           dashboard_link1 == IF first THEN row.v["dashboard_link"] ELSE dashboard_link
       IN IF dataset1 # key /\ Len(key.v) > 0
          THEN \* lines 46-54
               \E answer \in LegacyAnswers(LegacyDqmDatas) :
                 LET item == legacy_request(answer[1], answer[2]) IN
                 /\ requests' = Append(requests,
                        legacy_dqm_args(key, originator1, trust_score1,
                                        dashboard_link1, dq_statements))
                 /\ IF item.t = "RequestError"
                    THEN /\ legacy_raise
                         /\ UNCHANGED <<idx, current_dataset, dq_statements,
                                        originator, trust_score, dashboard_link>>
                    ELSE /\ current_dataset' = key
                         /\ dq_statements' = <<legacy_dq_statement(row)>>
                         /\ originator' = row.v["originator"]
                         /\ trust_score' = row.v["trust_score"]
                         /\ dashboard_link' = row.v["dashboard_link"]
                         /\ idx' = idx + 1
                         /\ output' = <<>>
                         /\ UNCHANGED <<spc, exit_code>>
          ELSE /\ current_dataset' = dataset1
               /\ originator' = originator1
               /\ trust_score' = trust_score1
               /\ dashboard_link' = dashboard_link1
               /\ dq_statements' = Append(dq_statements, legacy_dq_statement(row))
               /\ idx' = idx + 1
               /\ output' = <<>>
               /\ UNCHANGED <<spc, exit_code, requests>>
    /\ UNCHANGED <<clientVars, script, next_cursor, input, records, mutation_id,
                   mutations, exportVars, migrateVars, serverVars, after_cursor,
                   items_list, pureVars>>

\* main, lines 59-62: the update after the loop, with the key of the last
\* row; key is unbound when the file has no row.
legacy_dqm_last ==
    /\ script = "send-dqm-results/main.py"
    /\ spc = "loop"
    /\ idx > Len(records)
    /\ IF Len(records) = 0
       THEN \* NameError
            /\ legacy_raise
            /\ UNCHANGED requests
       ELSE LET key == records[Len(records)].v["dataset"] IN
            IF Len(key.v) > 0
            THEN \E answer \in LegacyAnswers(LegacyDqmDatas) :
                   LET item == legacy_request(answer[1], answer[2]) IN
                   /\ requests' = Append(requests,
                          legacy_dqm_args(key, originator, trust_score,
                                          dashboard_link, dq_statements))
                   /\ IF item.t = "RequestError"
                      THEN legacy_raise
                      ELSE /\ spc' = "done"
                           /\ exit_code' = Num(0)
                           /\ output' = <<>>
            ELSE /\ spc' = "done"
                 /\ exit_code' = Num(0)
                 /\ output' = <<>>
                 /\ UNCHANGED requests
    /\ UNCHANGED <<clientVars, script, next_cursor, loopVars, exportVars,
                   migrateVars, serverVars, legacyVars, pureVars>>

(***************************************************************************)
(* export-items-in-excel/main.py                                           *)
(***************************************************************************)
\* The j-th node of page i (fields of get_items_query): the second node of
\* a page has no domain, the third an empty list of domains.
LegacyNode(i, j) ==
    LET id == ToString(i) \o "." \o ToString(j) IN
    Dict([key |-> Str("key" \o id), name |-> Str("name" \o id),
          domain |-> IF j = 2 THEN None
                     ELSE IF j = 3 THEN List(<<>>)
                     ELSE List(<<Str("domain" \o id)>>)])

\* The data of page i of the chain; a server that loops says there is a
\* next page on every page.
LegacyPage(ch, i, loops) ==
    Dict([items |-> Connection([j \in 1..ch[i].k |-> LegacyNode(i, j)],
                               PageInfo(loops \/ i < Len(ch), ch[i].cursor),
                               ChainTotal(ch, Len(ch)))])

\* What the server answers get_items_query with: a server that loops
\* serves its page again; another one serves the page after the last one
\* served, or no data, or a failure.
LegacyItemsAnswers ==
    IF server_loops
    THEN {<<200, MkBody(LegacyPage(server_pages, 1, TRUE), Absent)>>}
    ELSE LegacyAnswers({None} \cup
                       (IF server_pos < Len(server_pages)
                        THEN {LegacyPage(server_pages, server_pos + 1, FALSE)}
                        ELSE {}))

\* The arguments of get_items_query (lines 26-38).
legacy_export_args(after) ==
    Dict([type |-> Str("dataset"),
          filters |-> List(<<Dict([property |->
                          Dict([ref |-> Str("domain"), isEmpty |-> Bool(FALSE)])])>>),
          after |-> after,
          first |-> Num(2)])

\* The entry appended to items_list for one node (lines 49-53).
legacy_export_item(item) ==
    Dict([key |-> item.v["key"], name |-> item.v["name"],
          domain |-> IF ~IsNone(item.v["domain"]) /\ Len(item.v["domain"].v) > 0
                     THEN item.v["domain"].v[1]
                     ELSE None])

\* main, lines 62-65, after the loop: the Excel file is written when there
\* is an item.
legacy_export_write(list, printed) ==
    /\ excel' = IF Len(list) > 0 THEN List(list) ELSE excel
    /\ output' = printed \o (IF Len(list) > 0
                             THEN <<Line("stdout", "Excel file generated", None)>>
                             ELSE <<>>)
    /\ spc' = "done"
    /\ exit_code' = Num(0)

\* main, lines 25-60: one iteration of the while loop, and what follows
\* the loop when the iteration leaves it.
legacy_export_page ==
    /\ script = "export-items-in-excel/main.py"
    /\ spc \in {"start", "loop"}
    /\ server_loops => server_pos < MaxFetches
    /\ \E answer \in LegacyItemsAnswers :
         LET items == legacy_request(answer[1], answer[2]) IN
         /\ requests' = Append(requests, legacy_export_args(after_cursor))
         /\ IF items.t = "RequestError"
            THEN /\ legacy_raise
                 /\ UNCHANGED <<excel, total_items, items_list, after_cursor, server_pos>>
            ELSE IF IsNone(items)
            THEN /\ legacy_export_write(items_list,
                        <<Line("stdout", "Warning: No item found for this query", None)>>)
                 /\ UNCHANGED <<total_items, items_list, after_cursor, server_pos>>
            ELSE LET conn == items.v["items"]
                     printed == IF IsNone(total_items)
                                THEN <<Line("stdout", "item(s) found... Processing them.",
                                            conn.v["totalCount"])>>
                                ELSE <<>>
                     list == items_list \o MapSeq(legacy_export_item, conn.v["nodes"].v)
                 IN /\ total_items' = IF IsNone(total_items)
                                      THEN conn.v["totalCount"] ELSE total_items
                    /\ items_list' = list
                    /\ server_pos' = server_pos + 1
                    /\ IF ~Truthy(conn.v["pageInfo"].v["hasNextPage"])
                       THEN /\ legacy_export_write(list, printed)
                            /\ UNCHANGED after_cursor
                       ELSE /\ after_cursor' = conn.v["pageInfo"].v["endCursor"]
                            /\ spc' = "loop"
                            /\ output' = printed
                            /\ UNCHANGED <<excel, exit_code>>
    /\ UNCHANGED <<clientVars, script, next_cursor, item_list, loopVars, cur_page,
                   item_idx, error_count, server_pages, server_loops,
                   current_dataset, dq_statements, originator, trust_score,
                   dashboard_link, pureVars>>

(***************************************************************************)
(* A server that loops: every listing is answered by the same page, with   *)
(* hasNextPage = true and the same endCursor.                              *)
(***************************************************************************)
\* The page such a server holds.
LoopingPages ==
    {<<[k |-> k, cursor |-> Str("c1")]>> : k \in 0..MaxNodes}

\* Its answer to a listing request of the scripts, or to a link mutation.
LoopingBodies ==
    CASE payload["query"] = FIND_DATASETS_QUERY ->
            {MkBody(DatasetsData(Connection(DatasetNodes(1, server_pages[1].k),
                                            PageInfo(TRUE, server_pages[1].cursor),
                                            server_pages[1].k)), Absent)}
      [] payload["query"] = LIST_CONTACT_ITEMS ->
            {MkBody(ContactData(Connection(ContactNodes(1, server_pages[1].k),
                                           PageInfo(TRUE, server_pages[1].cursor),
                                           server_pages[1].k)), Absent)}
      [] OTHER -> LinkAnswers

\* The looping server answers the POST of the current attempt with 200; it
\* serves MaxFetches pages at most.
LoopingServerAnswer ==
    /\ server_loops
    /\ pc = "loop"
    /\ LET listing == payload["query"] \in {FIND_DATASETS_QUERY, LIST_CONTACT_ITEMS} IN
       /\ listing => server_pos < MaxFetches
       /\ server_pos' = IF listing THEN server_pos + 1 ELSE server_pos
    /\ \E json \in LoopingBodies : request_loop(200, json)
    /\ UNCHANGED <<mainVars, next_cursor, exportVars, loopVars, migrateVars,
                   server_pages, server_loops, legacyVars, pureVars>>

\* A server that holds a chain of pages answers.
ChainServerAnswer ==
    /\ ~server_loops
    /\ ScriptServerAnswer
(***************************************************************************)
(* The functions of the response model and of the pagination helper,       *)
(* applied on their own to inputs drawn from bounded sets.                 *)
(***************************************************************************)
apply_end_cursor ==
    /\ fn_name = "none"
    /\ \E page_info \in PageInfos :
          /\ fn_arg' = page_info
          /\ fn_out' = end_cursor(page_info)
    /\ fn_name' = "end_cursor"
    /\ UNCHANGED <<clientVars, scriptVars>>

apply_export_read_page ==
    /\ fn_name = "none"
    /\ \E body \in DatasetsBodies :
          /\ fn_arg' = body
          /\ fn_out' = export_read_page(GqlResponse(body))
    /\ fn_name' = "export_read_page"
    /\ UNCHANGED <<clientVars, scriptVars>>

apply_migrate_read_page ==
    /\ fn_name = "none"
    /\ \E body \in ContactBodies :
          /\ fn_arg' = body
          /\ fn_out' = migrate_read_page(GqlResponse(body))
    /\ fn_name' = "migrate_read_page"
    /\ UNCHANGED <<clientVars, scriptVars>>


(***************************************************************************)
(* The response model applied to error lists.                              *)
(***************************************************************************)
\* Longest error list of a body.
MaxErrors == 2

\* Error objects a server sends: with a code in the extensions, with
\* another code, without extensions, with empty extensions, with
\* extensions that hold no code, with null extensions, with an empty code.
ErrForbidden ==
    Dict([message |-> Str("forbidden"),
          extensions |-> Dict([code |-> Str("FORBIDDEN")])])
ErrEmptyExtensions ==
    Dict([message |-> Str("no extension"), extensions |-> Dict(<<>>)])
ErrNoCode ==
    Dict([message |-> Str("no code"),
          extensions |-> Dict([classification |-> Str("DataFetchingException")])])
ErrNullExtensions ==
    Dict([message |-> Str("null extensions"), extensions |-> None])
ErrEmptyCode ==
    Dict([message |-> Str("empty code"), extensions |-> Dict([code |-> Str("")])])

ErrorObjects ==
    {ErrNotFound, ErrForbidden, ErrPlain, ErrEmptyExtensions, ErrNoCode,
     ErrNullExtensions, ErrEmptyCode}

\* The values of the errors key of a body: missing, null, or a list of at
\* most MaxErrors error objects.
ErrorLists ==
    {Absent, None}
    \cup {List(s) : s \in UNION {[1..n -> ErrorObjects] : n \in 0..MaxErrors}}

\* The codes the scripts look for.
Codes == {"ITEM_NOT_FOUND", "FORBIDDEN"}

\* GqlError(json) on every error object.
apply_GqlError ==
    /\ fn_name = "none"
    /\ \E json \in ErrorObjects :
          /\ fn_arg' = json
          /\ fn_out' = GqlError(json)
    /\ fn_name' = "GqlError"
    /\ UNCHANGED <<clientVars, scriptVars>>

\* GqlResponse(body).has_errors() on bodies with and without data.
apply_has_errors ==
    /\ fn_name = "none"
    /\ \E data \in DataValues, errors \in ErrorLists :
          LET resp == GqlResponse(MkBody(data, errors)) IN
          /\ fn_arg' = MkBody(data, errors)
          /\ fn_out' = [t |-> "has_errors", resp |-> resp,
                        value |-> has_errors(resp)]
    /\ fn_name' = "has_errors"
    /\ UNCHANGED <<clientVars, scriptVars>>

\* GqlResponse(body).has_error(code, unique).
apply_has_error ==
    /\ fn_name = "none"
    /\ \E errors \in ErrorLists, code \in Codes, unique \in BOOLEAN :
          /\ fn_arg' = [t |-> "has_error", body |-> MkBody(OpaqueData, errors),
                        code |-> code, unique |-> unique]
          /\ fn_out' = Bool(has_error(GqlResponse(MkBody(OpaqueData, errors)),
                                      code, unique))
    /\ fn_name' = "has_error"
    /\ UNCHANGED <<clientVars, scriptVars>>

(***************************************************************************)
(* Construction of the client: the endpoint.  A text is the sequence of    *)
(* its pieces: the scheme with its separator, when there is one, and the   *)
(* rest.                                                                   *)
(***************************************************************************)
\* Tenant settings: two short names, two URLs, and a text that is not an
\* http(s) URL although it starts like one.
Tenants ==
    {<<"acme">>, <<"https-acme">>, <<"https://", "acme.example.com">>,
     <<"http://", "localhost:8080">>, <<"ftp://", "acme.example.com">>}

\* re.match('^https?://', tenant)
IsHttpUrl(tenant) == tenant[1] \in {"http://", "https://"}

\* Variant of client_url: a tenant that is a URL is the endpoint.
client_url_direct(tenant) ==
    IF ~IsHttpUrl(tenant)
    THEN <<"https://">> \o tenant \o <<".zeenea.app", "/api/catalog/graphql">>
    ELSE tenant

\* ZeeneaGraphQLClient.__init__, lines 183-186: the base URL of the client.
client_url(tenant) ==
    IF ~IsHttpUrl(tenant)
    THEN <<"https://">> \o tenant \o <<".zeenea.app", "/api/catalog/graphql">>
    ELSE tenant \o <<"/api/catalog/graphql">>

\* ZeeneaGraphQLClient(tenant=..., api_secret=...): the client built, which
\* has sent nothing.
apply_client_init ==
    /\ fn_name = "none"
    /\ \E tenant \in Tenants :
          /\ fn_arg' = List(tenant)
          /\ fn_out' = [t |-> "ZeeneaGraphQLClient",
                        base_url |-> client_url(tenant),
                        headers |-> [content_type |-> "application/json; charset=utf-8",
                                     accept |-> "application/json",
                                     x_api_secret |-> "api_secret"],
                        max_retries |-> DefaultMaxRetries]
    /\ fn_name' = "ZeeneaGraphQLClient"
    /\ UNCHANGED <<clientVars, scriptVars>>

(***************************************************************************)
(* The group operations of ZeeneaScimClient (zeenea/scim.py).              *)
(***************************************************************************)
\* What scim_client.query(Group, ..., raise_scim_errors=False) returns: a
\* ListResponse with its total and the class of its first resource, an
\* Error object with its status, or something else.
QueryOutcomes ==
    {[t |-> "ListResponse", total_results |-> n, first |-> c] :
        n \in 0..2, c \in {"Group", "User"}}
    \cup {[t |-> "Error", status |-> s] : s \in {404, 500}}
    \cup {[t |-> "unknown"]}

\* What the server answers the PATCH with, as check_response reads it: the
\* updated Group, nothing (204), or an Error object.
PatchOutcomes ==
    {[t |-> "Group"], None} \cup {[t |-> "Error", status |-> s] : s \in {404, 500}}

\* ScimError and its subclasses ScimNotFound and ScimTooMany.
ScimError(class, message) == [t |-> "ScimError", class |-> class, message |-> message]

\* find_group_by_name
find_group_by_name(query) ==
    CASE query.t = "ListResponse" ->
            (CASE query.total_results = 0 -> ScimError("ScimNotFound", "not found")
               [] query.total_results = 1 ->
                    IF query.first = "Group" THEN [t |-> "Group"]
                    ELSE ScimError("ScimError", "invalid resource type")
               [] OTHER -> ScimError("ScimTooMany", "too many matching resources"))
      [] query.t = "Error" ->
            IF query.status = 404 THEN ScimError("ScimNotFound", "not found")
            ELSE ScimError("ScimError", "Failed to find group")
      [] OTHER -> ScimError("ScimError", "unknown result")

\* __scim_modify, through check_response: an Error object of the server is
\* raised as SCIMResponseErrorObject when raise_scim_errors is true and
\* returned otherwise.
scim_modify(patch, raise_scim_errors) ==
    IF patch.t = "Error" /\ raise_scim_errors
    THEN [t |-> "raised", exception |-> "SCIMResponseErrorObject"]
    ELSE patch

\* group_add_user
group_add_user(query, patch) ==
    LET found == find_group_by_name(query) IN
    IF found.t = "Group"
    THEN LET modified == scim_modify(patch, FALSE) IN
         CASE modified.t \in {"Group", "None"} -> None
           [] modified.t = "Error" -> ScimError("ScimError", "Failed to modify group")
           [] OTHER -> ScimError("ScimError", "unknown result")
    ELSE found

\* group_remove_user: __scim_modify is called with the default
\* raise_scim_errors=True and its value is dropped.
group_remove_user(query, patch) ==
    LET found == find_group_by_name(query) IN
    IF found.t = "Group"
    THEN LET modified == scim_modify(patch, TRUE) IN
         IF modified.t = "raised" THEN modified ELSE None
    ELSE found

apply_group_add_user ==
    /\ fn_name = "none"
    /\ \E query \in QueryOutcomes, patch \in PatchOutcomes :
          /\ fn_arg' = <<query, patch>>
          /\ fn_out' = group_add_user(query, patch)
    /\ fn_name' = "group_add_user"
    /\ UNCHANGED <<clientVars, scriptVars>>

apply_group_remove_user ==
    /\ fn_name = "none"
    /\ \E query \in QueryOutcomes, patch \in PatchOutcomes :
          /\ fn_arg' = <<query, patch>>
          /\ fn_out' = group_remove_user(query, patch)
    /\ fn_name' = "group_remove_user"
    /\ UNCHANGED <<clientVars, scriptVars>>
(***************************************************************************)
(* Specification of the client alone: a caller constructs a client with    *)
(* some max_retries, issues request calls one after the other (also after  *)
(* a call raised) and closes the client; the server answers any status.    *)
(***************************************************************************)
RetriesValues == (-1)..MaxRetriesBound

ClientInit ==
    /\ max_retries \in RetriesValues
    /\ client_uuid = "uuid-1"
    /\ client_state = "Open"
    /\ pc = "idle"
    /\ retries = 0
    /\ payload = <<>>
    /\ operation_name = None
    /\ response = None
    /\ result = None
    /\ trace = <<>>
    /\ calls = 0
    /\ previous = None
    /\ closes = 0

\* State of the legacy scripts before they run.
LegacyIdle ==
    /\ current_dataset = Str("")
    /\ dq_statements = <<>>
    /\ originator = Str("")
    /\ trust_score = Num(0)
    /\ dashboard_link = Str("")
    /\ after_cursor = Str("*")
    /\ items_list = <<>>

\* State of the scripts while the client is used on its own.
ScriptIdle ==
    /\ script = "none"
    /\ spc = "none"
    /\ exit_code = None
    /\ output = <<>>
    /\ requests = <<>>
    /\ next_cursor = None
    /\ item_list = None
    /\ excel = None
    /\ input = None
    /\ records = <<>>
    /\ idx = 0
    /\ mutation_id = None
    /\ mutations = 0
    /\ cur_page = None
    /\ item_idx = 0
    /\ error_count = 0
    /\ total_items = 0
    /\ server_pages = <<>>
    /\ server_pos = 0
    /\ server_loops = FALSE
    /\ LegacyIdle

\* No function is applied on its own.
PureIdle ==
    /\ fn_name = "none"
    /\ fn_arg = None
    /\ fn_out = None

CallerRequest ==
    /\ client_state = "Open"
    /\ calls < MaxCalls
    /\ \E query \in Queries : request(query, Dict(<<>>))
    /\ previous' = IF calls = 0 THEN previous
                   ELSE [t |-> "call", outcome |-> pc, retries |-> retries]
    /\ UNCHANGED <<scriptVars, pureVars>>

ServerAnswer ==
    /\ \E status \in Statuses :
        \E json \in (IF status = 200 THEN GenericBodies ELSE FailureBodies) :
            request_loop(status, json)
    /\ UNCHANGED <<scriptVars, pureVars>>

CallerClose ==
    /\ client_state = "Open"
    /\ pc \in {"idle", "returned", "raised"}
    /\ close
    /\ UNCHANGED <<scriptVars, pureVars>>

vars == <<clientVars, scriptVars, pureVars>>

Init == ClientInit /\ ScriptIdle /\ PureIdle

Next == CallerRequest \/ ServerAnswer \/ CallerClose

Spec == Init /\ [][Next]_vars

(***************************************************************************)
(* Specification of the scripts: one script runs main() against a server   *)
(* that holds a chain of pages and answers every POST with some status.    *)
(***************************************************************************)
\* The inputs of each script, and the pages its server holds.
ScriptInputs(s) ==
    CASE s = "send_dqm_results" -> DqmInputs
      [] s = "send_field_lineage" -> LineageInputs
      [] s = "update_items_from_excel" -> ExcelInputs
      [] s = "migrate_contact" -> MigrateInputs
      [] OTHER -> {None}

ScriptChains(s) ==
    IF s \in {"export_items_in_excel", "migrate_contact"} THEN Chains ELSE {<<>>}

ScriptsInit ==
    /\ max_retries = DefaultMaxRetries
    /\ client_uuid = "uuid-1"
    /\ client_state = "NotCreated"
    /\ closes = 0
    /\ pc = "idle"
    /\ retries = 0
    /\ payload = <<>>
    /\ operation_name = None
    /\ response = None
    /\ result = None
    /\ trace = <<>>
    /\ calls = 0
    /\ previous = None
    /\ script \in Scripts
    /\ spc = "start"
    /\ exit_code = None
    /\ output = <<>>
    /\ requests = <<>>
    /\ next_cursor = None
    /\ item_list = None
    /\ excel = None
    /\ input \in ScriptInputs(script)
    /\ records = <<>>
    /\ idx = 0
    /\ mutation_id = None
    /\ mutations = 0
    /\ cur_page = None
    /\ item_idx = 0
    /\ error_count = 0
    /\ total_items = 0
    /\ server_pages \in ScriptChains(script)
    /\ server_pos = 0
    /\ server_loops = FALSE
    /\ LegacyIdle
    /\ PureIdle

ScriptsNext ==
    \/ with_enter
    \/ request_failure
    \/ export_first_request
    \/ export_first_page
    \/ export_next_page
    \/ dqm_read_input
    \/ dqm_next_group
    \/ dqm_response
    \/ lineage_read_input
    \/ lineage_next_process
    \/ lineage_response
    \/ update_read_input
    \/ update_next_row
    \/ update_response
    \/ migrate_main
    \/ migrate_next_responsibility
    \/ migrate_first_page
    \/ migrate_link_response
    \/ migrate_next_page
    \/ ScriptServerAnswer

SpecScripts == ScriptsInit /\ [][ScriptsNext]_vars

(***************************************************************************)
(* Specification of the functions applied on their own.                    *)
(***************************************************************************)
PureInit ==
    /\ max_retries = DefaultMaxRetries
    /\ client_uuid = "uuid-1"
    /\ client_state = "Open"
    /\ closes = 0
    /\ pc = "idle"
    /\ retries = 0
    /\ payload = <<>>
    /\ operation_name = None
    /\ response = None
    /\ result = None
    /\ trace = <<>>
    /\ calls = 0
    /\ previous = None
    /\ ScriptIdle
    /\ PureIdle

PureNext ==
    \/ apply_end_cursor
    \/ apply_export_read_page
    \/ apply_migrate_read_page
    \/ apply_GqlError
    \/ apply_has_errors
    \/ apply_has_error
    \/ apply_client_init
    \/ apply_group_add_user
    \/ apply_group_remove_user

SpecPure == PureInit /\ [][PureNext]_vars


(***************************************************************************)
(* Specification of the legacy scripts: one script runs main() against a   *)
(* server that answers each request at once.                               *)
(***************************************************************************)
LegacyInputs(s) ==
    CASE s = "update-items-from-excel/main.py" -> LegacyExcelInputs
      [] s = "send-dqm-results/main.py" -> LegacyDqmInputs
      [] OTHER -> {None}

LegacyInit ==
    /\ max_retries = DefaultMaxRetries
    /\ client_uuid = "uuid-1"
    /\ client_state = "NotCreated"
    /\ closes = 0
    /\ pc = "idle"
    /\ retries = 0
    /\ payload = <<>>
    /\ operation_name = None
    /\ response = None
    /\ result = None
    /\ trace = <<>>
    /\ calls = 0
    /\ previous = None
    /\ script \in LegacyScripts
    /\ spc = "start"
    /\ exit_code = None
    /\ output = <<>>
    /\ requests = <<>>
    /\ next_cursor = None
    /\ item_list = None
    /\ excel = None
    /\ input \in LegacyInputs(script)
    /\ records = <<>>
    /\ idx = 0
    /\ mutation_id = None
    /\ mutations = 0
    /\ cur_page = None
    /\ item_idx = 0
    /\ error_count = 0
    /\ total_items = IF script = "export-items-in-excel/main.py" THEN None ELSE 0
    /\ server_pages \in (IF script = "export-items-in-excel/main.py"
                         THEN Chains ELSE {<<>>})
    /\ server_pos = 0
    /\ server_loops = FALSE
    /\ LegacyIdle
    /\ PureIdle

LegacyNext ==
    \/ legacy_update_read_input
    \/ legacy_update_read_item
    \/ legacy_update_item
    \/ legacy_dqm_read_input
    \/ legacy_dqm_row
    \/ legacy_dqm_last
    \/ legacy_export_page

SpecLegacy == LegacyInit /\ [][LegacyNext]_vars

(***************************************************************************)
(* The client with a transport that answers every POST: post() is a        *)
(* blocking call that ends with a response, so the iteration of the while  *)
(* loop that waits for it is always taken in the end.                      *)
(***************************************************************************)
SpecAnswered == Init /\ [][Next]_vars /\ WF_vars(ServerAnswer)

(***************************************************************************)
(* Specification of the pagination loops: one of the three scripts that    *)
(* page through a listing runs against a server that holds a chain of      *)
(* pages, or against one that loops.  Each step that can be taken is taken *)
(* in the end: main runs on and the server answers.                        *)
(***************************************************************************)
PagingScripts ==
    {"export_items_in_excel", "migrate_contact", "export-items-in-excel/main.py"}

PaginationInit ==
    /\ max_retries = DefaultMaxRetries
    /\ client_uuid = "uuid-1"
    /\ client_state = "NotCreated"
    /\ closes = 0
    /\ pc = "idle"
    /\ retries = 0
    /\ payload = <<>>
    /\ operation_name = None
    /\ response = None
    /\ result = None
    /\ trace = <<>>
    /\ calls = 0
    /\ previous = None
    /\ script \in PagingScripts
    /\ spc = "start"
    /\ exit_code = None
    /\ output = <<>>
    /\ requests = <<>>
    /\ next_cursor = None
    /\ item_list = None
    /\ excel = None
    /\ input \in ScriptInputs(script)
    /\ records = <<>>
    /\ idx = 0
    /\ mutation_id = None
    /\ mutations = 0
    /\ cur_page = None
    /\ item_idx = 0
    /\ error_count = 0
    /\ total_items = IF script = "export-items-in-excel/main.py" THEN None ELSE 0
    /\ server_loops \in BOOLEAN
    /\ server_pages \in (IF server_loops THEN LoopingPages ELSE Chains)
    /\ server_pos = 0
    /\ LegacyIdle
    /\ PureIdle

PaginationNext ==
    \/ with_enter
    \/ request_failure
    \/ export_first_request
    \/ export_first_page
    \/ export_next_page
    \/ migrate_main
    \/ migrate_next_responsibility
    \/ migrate_first_page
    \/ migrate_link_response
    \/ migrate_next_page
    \/ legacy_export_page
    \/ ChainServerAnswer
    \/ LoopingServerAnswer

SpecPagination ==
    PaginationInit /\ [][PaginationNext]_vars /\ WF_vars(PaginationNext)
(***************************************************************************)
(* Observations on the trace of the current call.                          *)
(***************************************************************************)
IsPost(ev) == ev.e = "post"
IsSleep(ev) == ev.e = "sleep"
Is5xx(status) == status \in 500..599

\* Statuses of the POSTs of the current call, in order.
Posts == MapSeq(LAMBDA ev : ev.v, SelectSeq(trace, IsPost))
\* Durations (ms) of the sleeps of the current call, in order.
Sleeps == MapSeq(LAMBDA ev : ev.v, SelectSeq(trace, IsSleep))
\* Number of POSTs among the first i events of the trace.
PostsBefore(i) == Cardinality({j \in 1..(i - 1) : IsPost(trace[j])})
\* Number of 5xx POSTs of the current call.
Count5xx == Cardinality({j \in 1..Len(trace) : IsPost(trace[j]) /\ Is5xx(trace[j].v)})

IsPrefix(s, u) == Len(s) <= Len(u) /\ \A i \in 1..Len(s) : s[i] = u[i]
NonDecreasing(s) == \A i \in 1..(Len(s) - 1) : s[i] <= s[i + 1]
Finished == pc \in {"returned", "raised"}

(***************************************************************************)
(* Claims on the retry loop.                                               *)
(***************************************************************************)
\* C1: with max_retries = N >= 1 and every attempt answered by a 5xx status,
\* request keeps looping while fewer than N POSTs were made, raises at the
\* N-th POST, the failure carries the status of the last response, and the
\* call never makes more than N POSTs.
C1_ExhaustedRetriesRaise ==
    (max_retries >= 1 /\ pc # "idle" /\ \A i \in 1..Len(Posts) : Is5xx(Posts[i]))
    => /\ Len(Posts) <= max_retries
       /\ (Len(Posts) = max_retries) <=> (pc = "raised")
       /\ (Len(Posts) < max_retries) => (pc = "loop")
       /\ pc = "raised" =>
            /\ result.t = "RequestError"
            /\ result.status_code = Posts[Len(Posts)]
            /\ result.status_code = response.status_code

C1_Witness ==
    /\ max_retries = 3
    /\ pc = "raised"
    /\ Posts = <<503, 503, 503>>
    /\ result.status_code = 503

\* C2 as stated: with max_retries = 3, a server answering 503, 503, 503, 200
\* makes request return a Response, with exactly 2 delays, non-decreasing.
C2_ThreeFailuresThenSuccess ==
    (max_retries = 3 /\ Finished /\ IsPrefix(Posts, <<503, 503, 503, 200>>))
    => /\ pc = "returned"
       /\ result.t = "GqlResponse"
       /\ Len(Sleeps) = 2
       /\ NonDecreasing(Sleeps)

\* C2 amended: with max_retries = 3, a server answering 503, 503, 200 makes
\* request return one Response after exactly 3 POSTs, with exactly 2 delays
\* (100 ms then 200 ms), non-decreasing in the retry index.
C2_TwoFailuresThenSuccess ==
    (max_retries = 3 /\ Finished /\ IsPrefix(Posts, <<503, 503, 200>>))
    => /\ pc = "returned"
       /\ result.t = "GqlResponse"
       /\ Posts = <<503, 503, 200>>
       /\ Sleeps = <<100, 200>>
       /\ NonDecreasing(Sleeps)

C2_Witness ==
    /\ max_retries = 3
    /\ pc = "returned"
    /\ Posts = <<503, 503, 200>>
    /\ Len(Sleeps) = 2

\* C3: a POST answered by a status that is neither 200 nor in 500..599 is
\* the last event of the call: the call raises at once with that status,
\* nothing (no sleep, no POST) follows it, it is the only POST with such a
\* status, and the retry counter is neither changed nor reported.
C3_OtherStatusRaisesAtOnce ==
    \A i \in 1..Len(trace) :
        (IsPost(trace[i]) /\ trace[i].v # 200 /\ ~Is5xx(trace[i].v))
        => /\ i = Len(trace)
           /\ pc = "raised"
           /\ result.t = "RequestError"
           /\ result.status_code = trace[i].v
           /\ result.attempts = None
           /\ retries = Count5xx

C3_Witness ==
    /\ max_retries = 3
    /\ trace = <<PostEvent(503), SleepEvent(100), PostEvent(404)>>
    /\ pc = "raised"
    /\ retries = 1

\* C4: a POST answered by 200 ends the call with a returned GqlResponse that
\* carries the body's data and errors, whatever they are; a call that raised
\* did not receive a 200.
C4_OkAlwaysReturns ==
    /\ \A i \in 1..Len(trace) :
          (IsPost(trace[i]) /\ trace[i].v = 200)
          => /\ i = Len(trace)
             /\ pc = "returned"
             /\ result.t = "GqlResponse"
             /\ LET body == response.json
                    has_data == "data" \in DOMAIN body.v
                    has_errs == /\ "errors" \in DOMAIN body.v
                                /\ body.v["errors"].t = "list"
                                /\ Len(body.v["errors"].v) > 0
                IN /\ result.data = (IF has_data THEN body.v["data"] ELSE None)
                   /\ has_errs <=> (result.errors # None)
                   /\ has_errs =>
                        Len(result.errors.errors) = Len(body.v["errors"].v)
    /\ pc = "raised" => (result.t = "RequestError" /\ response.status_code # 200)

C4_Witness ==
    /\ pc = "returned"
    /\ response.status_code = 200
    /\ result.data = OpaqueData
    /\ result.errors # None

\* C5: the first event of a call is a POST; every sleep comes right after a
\* 5xx POST and right before the next POST, and the sleep before the k-th
\* retry lasts k x 100 ms; every POST but the first is preceded by a sleep;
\* the last event of a call is a POST.
C5_LinearBackoff ==
    /\ trace # <<>> => (IsPost(trace[1]) /\ IsPost(trace[Len(trace)]))
    /\ \A i \in 1..Len(trace) :
          /\ IsSleep(trace[i]) =>
                /\ i > 1 /\ IsPost(trace[i - 1]) /\ Is5xx(trace[i - 1].v)
                /\ i < Len(trace) /\ IsPost(trace[i + 1])
                /\ trace[i].v = PostsBefore(i) * 100
          /\ (IsPost(trace[i]) /\ i > 1) => IsSleep(trace[i - 1])

C5_Witness ==
    /\ Len(trace) = 5
    /\ Sleeps = <<100, 200>>
    /\ Finished

\* C6: request starts every call with a zero retry counter whatever the
\* earlier calls on the client did: while a call runs the counter equals
\* the number of 5xx answers of that call alone, its first event is a POST,
\* it raises on 5xx answers only when that call alone used up max_retries;
\* and no step of request changes max_retries, the client identifier or
\* the open/closed state.
C6_RetriesLocalToCall ==
    [][/\ (pc' \in {"loop", "returned", "raised"}) =>
            /\ retries' = Cardinality({j \in 1..Len(trace') :
                              IsPost(trace'[j]) /\ Is5xx(trace'[j].v)})
            /\ trace' # <<>> => IsPost(trace'[1])
            /\ (pc' = "raised" /\ Is5xx(response'.status_code)) =>
                    retries' >= max_retries'
            /\ (pc' = "loop" /\ trace' # <<>>) => (retries' < max_retries')
       /\ max_retries' = max_retries
       /\ client_uuid' = client_uuid
       /\ (pc = "loop" \/ pc' = "loop") => client_state' = client_state
      ]_vars

C6_Witness ==
    /\ calls = 2
    /\ previous # None /\ previous.outcome = "raised" /\ previous.retries = 3
    /\ trace = <<PostEvent(503), SleepEvent(100), PostEvent(503)>>
    /\ pc = "loop"
    /\ retries = 2

(***************************************************************************)
(* Claims on pagination.                                                   *)
(***************************************************************************)
\* C8: end_cursor returns the input's endCursor when hasNextPage is true
\* and None when it is false, whatever endCursor holds; so, endCursor being
\* a string, it returns a cursor iff hasNextPage is true.
C8_EndCursor ==
    fn_name = "end_cursor"
    => LET hasNextPage == fn_arg.v["hasNextPage"].v
           endCursor == fn_arg.v["endCursor"]
       IN /\ hasNextPage => fn_out = endCursor
          /\ ~hasNextPage => fn_out = None
          /\ endCursor.t = "str" => (fn_out.t = "str" <=> hasNextPage)

C8_Witness ==
    /\ fn_name = "end_cursor"
    /\ fn_arg.v["hasNextPage"].v
    /\ fn_out = Str("c1")

\* The pageInfo object of the body read_page was applied to.
SourcePageInfo ==
    IF fn_name = "export_read_page"
    THEN fn_arg.v["data"].v["items"].v["pageInfo"]
    ELSE fn_arg.v["data"].v["item"].v["connection"].v["pageInfo"]

\* C9: a GqlPage produced by read_page (of export_items_in_excel and of
\* migrate_contact) has next_cursor = None when the source page's
\* hasNextPage is false and next_cursor = endCursor when it is true; so,
\* endCursor being a string, next_cursor is None exactly when hasNextPage is
\* false.
C9_PageNextCursor ==
    (fn_name \in {"export_read_page", "migrate_read_page"} /\ fn_out.t = "GqlPage")
    => LET hasNextPage == SourcePageInfo.v["hasNextPage"].v
           endCursor == SourcePageInfo.v["endCursor"]
       IN /\ ~hasNextPage => fn_out.next_cursor = None
          /\ hasNextPage => fn_out.next_cursor = endCursor
          /\ endCursor.t = "str" => (fn_out.next_cursor = None <=> ~hasNextPage)

C9_Witness ==
    /\ fn_name = "migrate_read_page"
    /\ fn_out.t = "GqlPage"
    /\ Len(fn_out.content.v) = 2
    /\ fn_out.next_cursor = Str("c2")

\* The item expected in the export for node j of page i.
ExpectedItem(i, j) ==
    LET id == ToString(i) \o "." \o ToString(j) IN
    Dict([key |-> Str("key" \o id), name |-> Str("name" \o id),
          sourceName |-> IF j = 2 THEN None ELSE Str("src" \o id)])

\* The items of pages 1..i of the server's chain, in page and node order.
RECURSIVE ExpectedItems(_)
ExpectedItems(i) ==
    IF i = 0 THEN <<>>
    ELSE ExpectedItems(i - 1) \o [j \in 1..server_pages[i].k |-> ExpectedItem(i, j)]

\* The list accumulated by export_items_in_excel.main (empty while
\* item_list is not assigned).
Accumulated == IF IsNone(item_list) THEN <<>> ELSE item_list.v

\* Every request of the run was answered by the next page of the chain.
AllPagesServed == server_pos = Len(requests)

\* C10: when export_items_in_excel.main ends on a server that answered every
\* request with the next page of its chain of n pages, the loop issued
\* exactly n requests, the first without after and the (i+1)-th with
\* after = c_i, and item_list is the concatenation of the pages' nodes in
\* page order and node order.
C10_PaginationFetchesWholeChain ==
    (script = "export_items_in_excel" /\ spc = "done" /\ AllPagesServed)
    => /\ Len(requests) = Len(server_pages)
       /\ "after" \notin DOMAIN requests[1].v
       /\ \A i \in 1..(Len(requests) - 1) :
             Get(requests[i + 1], "after") = server_pages[i].cursor
       /\ Accumulated = ExpectedItems(Len(server_pages))


(***************************************************************************)
(* Claims on the with block of the scripts.                                *)
(***************************************************************************)


\* C7: in every script the client created by the with statement goes from
\* Open to Closed exactly once (close is called once, on an Open client,
\* and a Closed client stays Closed); main never ends with a created client
\* that is not Closed, whether the block ends normally, by sys.exit or by a
\* failure raised by request; and no request is issued, and no POST sent,
\* once the client is Closed.
C7_ClientClosedOnEveryExit ==
    [][/\ client_state' # client_state =>
              <<client_state, client_state'>> \in
                  {<<"NotCreated", "Open">>, <<"Open", "Closed">>}
       /\ closes' # closes =>
              (client_state = "Open" /\ client_state' = "Closed" /\ closes' = 1)
       /\ (spc' \in {"done", "exited", "failed"} /\ client_state # "NotCreated") =>
              (client_state' = "Closed" /\ closes' = 1)
       /\ client_state = "Closed" =>
              (calls' = calls /\ requests' = requests /\ trace' = trace
               /\ pc' = pc)]_vars

\* A request raised RequestError after its retries and the script ended with
\* its client closed.
C7_Witness ==
    /\ spc = "failed"
    /\ pc = "raised"
    /\ Len(trace) > 1
    /\ client_state = "Closed"
    /\ closes = 1

(***************************************************************************)
(* Claims on the pagination loops.                                         *)
(***************************************************************************)
\* The scripts with a pagination loop.
Paginating == script \in {"export_items_in_excel", "migrate_contact"}

\* A page fetch has returned and main is about to read it.
PageReceived ==
    /\ Paginating
    /\ spc \in {"first_page", "next_page"}
    /\ pc = "returned"

\* The page read_page makes of the response just received (None when the
\* response has no data or no connection).
ReceivedPage ==
    IF script = "export_items_in_excel"
    THEN export_read_page(result)
    ELSE IF migrate_read_page_raises(result) THEN None
         ELSE migrate_read_page(result)

\* The variables of a page request (the link requests of migrate_contact
\* have no page size).
IsPageRequest(variables) == "page_size" \in DOMAIN variables.v

\* The step issues a request, whose variables are LastRequest'.
IssuesRequest == Len(requests') = Len(requests) + 1
LastRequest == requests[Len(requests)]

\* The step issues the request of the page that follows cursor.
FetchesAfter(cursor) ==
    /\ IssuesRequest
    /\ IsPageRequest(LastRequest')
    /\ Get(LastRequest', "after") = cursor

\* C11: whenever a fetched page has data and a present next_cursor, its
\* node list being empty or not, a further request is issued with that
\* cursor as after: by the step that reads the page in
\* export_items_in_excel.main, and in migrate_contact.copy_responsibility
\* by the step that reads an empty page or that ends the links of a page
\* with items.
C11_FetchesWhileCursorPresent ==
    [][/\ (/\ PageReceived
           /\ ReceivedPage.t = "GqlPage"
           /\ ReceivedPage.next_cursor # None
           /\ (script = "export_items_in_excel" \/ Len(ReceivedPage.content.v) = 0))
          => FetchesAfter(ReceivedPage.next_cursor)
       /\ (/\ script = "migrate_contact"
           /\ spc = "link"
           /\ pc = "returned"
           /\ item_idx = Len(cur_page.content.v)
           /\ cur_page.next_cursor # None)
          => FetchesAfter(cur_page.next_cursor)]_vars

\* The first request of the pagination run the last request belongs to: the
\* latest page request without after.
RunStart(reqs) ==
    CHOOSE i \in 1..Len(reqs) :
        /\ IsPageRequest(reqs[i])
        /\ "after" \notin DOMAIN reqs[i].v
        /\ \A j \in (i + 1)..Len(reqs) :
              IsPageRequest(reqs[j]) => "after" \in DOMAIN reqs[j].v

\* C12: every request of a pagination run has the page size and the
\* filter / ref variables of the first request of the run; the first
\* request has no after, and the after of every later request is the cursor
\* of the page the server served last, which has a next page.
C12_PaginationVariables ==
    [][(Paginating /\ IssuesRequest /\ IsPageRequest(LastRequest')) =>
          LET r == LastRequest'.v
              first == requests'[RunStart(requests')].v
          IN /\ r["page_size"] = Num(DefaultPageSize)
             /\ \A k \in DOMAIN r \ {"after"} : k \in DOMAIN first /\ r[k] = first[k]
             /\ DOMAIN first \subseteq DOMAIN r
             /\ (spc \in {"entered", "loop"}) <=> ("after" \notin DOMAIN r)
             /\ "after" \in DOMAIN r =>
                   /\ server_pos \in 1..(Len(server_pages) - 1)
                   /\ r["after"] = server_pages[server_pos].cursor
                   /\ Truthy(r["after"])]_vars

\* The second request of an export: the page after cursor c1.
C12_Witness ==
    /\ script = "export_items_in_excel"
    /\ spc = "next_page"
    /\ Len(requests) = 2
    /\ "after" \notin DOMAIN requests[1].v
    /\ Get(requests[2], "after") = Str("c1")
    /\ server_pos = 1

\* The last line printed by the step.
LastLine(out) == out[Len(out)]

\* C13: when a page fetch returns a response without data, the step that
\* reads it does not raise and issues no request; it prints that nothing
\* was found; export_items_in_excel.main keeps its item list and, after a
\* later page, writes it to the Excel file and ends with exit code 0;
\* migrate_contact.copy_responsibility keeps its counters, prints the end
\* of the copy and returns to the loop of main.
C13_NoDataStopsLoop ==
    [][(PageReceived /\ IsNone(result.data)) =>
          /\ spc' # "failed"
          /\ requests' = requests
          /\ calls' = calls
          /\ \E i \in 1..Len(output') :
                /\ output'[i].stream = "stdout"
                /\ output'[i].msg =
                      IF spc = "next_page" THEN "No item found in this page"
                      ELSE IF script = "migrate_contact" THEN "No link found"
                      ELSE "No item found"
          /\ script = "export_items_in_excel" =>
                /\ spc' = "done"
                /\ exit_code' = Num(0)
                /\ item_list' = item_list
                /\ spc = "next_page" =>
                      /\ Truthy(item_list)
                      /\ LastLine(output').msg \in
                            {"Excel file generated", "Failed to write to Excel file"}
                      /\ LastLine(output').msg = "Excel file generated" =>
                            excel' = item_list
          /\ script = "migrate_contact" =>
                /\ spc' = "loop"
                /\ idx' = idx + 1
                /\ error_count' = error_count
                /\ total_items' = total_items
                /\ LastLine(output') =
                      Line("stdout", "End of the copy", Num(total_items))
                      \/ (error_count # 0 /\ LastLine(output').msg = "copy errors")]_vars

\* An export whose second page came without data: the items of the first
\* page are in the Excel file.
C13_Witness ==
    /\ script = "export_items_in_excel"
    /\ spc = "done"
    /\ Len(requests) = 2
    /\ IsNone(result.data)
    /\ Truthy(item_list)
    /\ excel = item_list
    /\ output[Len(output)].msg = "Excel file generated"

(***************************************************************************)
(* Claims on the response model.                                           *)
(***************************************************************************)
\* The error objects of a JSON body (none when the key is missing or null).
JsonErrors(body) ==
    LET errors == Get(body, "errors") IN
    IF errors.t = "list" THEN errors.v ELSE <<>>

\* The value at key code of the extensions map of a JSON error object, None
\* when there is no such map or no such key.
JsonCode(error) ==
    LET extensions == Get(error, "extensions") IN
    IF extensions.t = "dict" /\ "code" \in DOMAIN extensions.v
    THEN extensions.v["code"]
    ELSE None

\* C14: has_error(code, unique=True) is true iff the error list has exactly
\* one element and the code of that element is code; has_error(code,
\* unique=False) is true iff the code of at least one element is code; both
\* are false when the response has no errors.
C14_HasError ==
    fn_name = "has_error"
    => LET errors == JsonErrors(fn_arg.body)
           matches == {i \in 1..Len(errors) : JsonCode(errors[i]) = Str(fn_arg.code)}
       IN /\ fn_arg.unique => (fn_out.v <=> (Len(errors) = 1 /\ matches = {1}))
          /\ ~fn_arg.unique => (fn_out.v <=> matches # {})
          /\ Len(errors) = 0 => ~fn_out.v

\* Two errors with the code looked for: not a unique error.
C14_Witness ==
    /\ fn_name = "has_error"
    /\ fn_arg.unique
    /\ fn_arg.code = "ITEM_NOT_FOUND"
    /\ JsonErrors(fn_arg.body) = <<ErrNotFound, ErrNotFound>>
    /\ fn_out = Bool(FALSE)

\* C15: has_errors() is true iff the errors list of the body is non-empty;
\* a response built from a body without errors key, with a null errors
\* value or with an empty errors list has has_errors() false and errors
\* None, not an empty list; a non-empty list gives one GqlError per element.
C15_HasErrors ==
    fn_name = "has_errors"
    => LET errors == JsonErrors(fn_arg) IN
       /\ fn_out.value <=> Len(errors) > 0
       /\ Len(errors) = 0 => fn_out.resp.errors = None
       /\ Len(errors) > 0 =>
             /\ fn_out.resp.errors.t = "GqlErrorList"
             /\ Len(fn_out.resp.errors.errors) = Len(errors)

\* A body with data and without errors key.
C15_Witness ==
    /\ fn_name = "has_errors"
    /\ DOMAIN fn_arg.v = {"data"}
    /\ fn_out.resp.errors = None
    /\ ~fn_out.value

\* C16: the code of a GqlError is the value at key code of the extensions
\* map of the error object when there is such a map with such a key, and
\* None, not the empty string, in every other case.
C16_ErrorCode ==
    fn_name = "GqlError"
    => LET extensions == Get(fn_arg, "extensions")
           has_code == extensions.t = "dict" /\ "code" \in DOMAIN extensions.v
       IN /\ has_code => fn_out.code = extensions.v["code"]
          /\ ~has_code => (fn_out.code = None /\ fn_out.code # Str(""))

\* Extensions without a code.
C16_Witness ==
    /\ fn_name = "GqlError"
    /\ fn_arg = ErrNoCode
    /\ fn_out.code = None

\* C17: every GqlResponse returned by request has data or errors (not both
\* None), whatever the body of the 200 answer.
C17_DataOrErrors ==
    pc = "returned" => ~(IsNone(result.data) /\ IsNone(result.errors))

(***************************************************************************)
(* Claims on the construction of the client and of the request body.       *)
(***************************************************************************)
\* The text of a query after its leading whitespace.
FirstNonBlank(query) ==
    IF Len(query) > 0 /\ query[1].k = "ws" THEN Tail(query) ELSE query

\* The first non-blank line of the text starts with query <Name> or
\* mutation <Name>.
StartsWithOperation(query) ==
    LET text == FirstNonBlank(query) IN
    /\ Len(text) >= 3
    /\ text[1].k = "name" /\ text[1].s \in {"query", "mutation"}
    /\ text[2].k = "ws"
    /\ text[3].k = "name"

\* C18: the body built by request has operationName iff the first
\* non-blank line of the query text starts with query <Name> or
\* mutation <Name>, and operationName is then <Name>, whether the text
\* begins with whitespace or not.
C18_OperationName ==
    pc # "idle"
    => LET query == payload["query"] IN
       /\ "operationName" \in DOMAIN payload <=> StartsWithOperation(query)
       /\ StartsWithOperation(query) =>
             payload["operationName"] = Str(FirstNonBlank(query)[3].s)

\* C19 as stated: a tenant with an http:// or https:// prefix is the
\* endpoint as it is; any other tenant gives
\* https://<tenant>.zeenea.app/api/catalog/graphql; construction sends no
\* request.
C19_UrlUsedDirectly ==
    fn_name = "ZeeneaGraphQLClient"
    => LET tenant == fn_arg.v IN
       /\ fn_out.base_url =
             IF tenant[1] \in {"http://", "https://"}
             THEN tenant
             ELSE <<"https://">> \o tenant \o <<".zeenea.app", "/api/catalog/graphql">>
       /\ trace = <<>> /\ calls = 0

\* C19 amended: a tenant with an http:// or https:// prefix gives the
\* endpoint <tenant>/api/catalog/graphql; any other tenant gives
\* https://<tenant>.zeenea.app/api/catalog/graphql; construction sends no
\* request.
C19_EndpointDerivation ==
    fn_name = "ZeeneaGraphQLClient"
    => LET tenant == fn_arg.v IN
       /\ fn_out.base_url =
             IF tenant[1] \in {"http://", "https://"}
             THEN tenant \o <<"/api/catalog/graphql">>
             ELSE <<"https://">> \o tenant \o <<".zeenea.app", "/api/catalog/graphql">>
       /\ trace = <<>> /\ calls = 0

\* A client built from a URL.
C19_Witness ==
    /\ fn_name = "ZeeneaGraphQLClient"
    /\ fn_arg = List(<<"https://", "acme.example.com">>)
    /\ fn_out.base_url = <<"https://", "acme.example.com", "/api/catalog/graphql">>
    /\ trace = <<>>

(***************************************************************************)
(* Claims on the errors of a response.                                     *)
(***************************************************************************)
\* main is about to process the response returned by request.
HandlesResponse ==
    /\ pc = "returned"
    /\ spc \in {"first_page", "next_page", "await", "link"}

\* C20: whenever a script processes a response with errors and goes on, it
\* prints the error list, or the not-found message that stands for a sole
\* ITEM_NOT_FOUND error, before it moves to the next record or page; the
\* response may carry data too, and its client mutation id may differ from
\* the one sent.
C20_ErrorsSurfaced ==
    [][(HandlesResponse /\ has_errors(result) /\ spc' # "failed") =>
          \E i \in 1..Len(output') :
              \/ output'[i].arg = result.errors
              \/ /\ output'[i].msg = "not found"
                 /\ has_error(result, "ITEM_NOT_FOUND", TRUE)]_vars

(***************************************************************************)
(* Claims on the propagation of failures.                                  *)
(***************************************************************************)
\* The scripts that send one mutation per input record.
Mutating ==
    script \in {"send_dqm_results", "send_field_lineage",
                "update_items_from_excel", "migrate_contact"}

\* C21: GraphQL errors never abort a run of send_dqm_results,
\* send_field_lineage, update_items_from_excel and migrate_contact: the
\* step that processes a returned response, whatever errors it carries,
\* does not end the script in failure, so that every later record gets its
\* request; a script ends in failure only when request has raised.
C21_OnlyTransportFailureAborts ==
    [][(Mutating /\ HandlesResponse) => spc' # "failed"]_vars

\* C22: a failure raised by request is caught by no script: the step that
\* follows it leaves the with block and ends main in failure with exit code
\* 1, and issues no request for the remaining records, pages or
\* responsibilities; nothing is requested afterwards.
C22_TransportFailureIsFatal ==
    [][/\ (pc = "raised" /\ spc \in InBlock) =>
              /\ spc' = "failed"
              /\ exit_code' = Num(1)
              /\ requests' = requests
              /\ calls' = calls
              /\ trace' = trace
       /\ spc = "failed" => (requests' = requests /\ calls' = calls)]_vars

\* send_field_lineage ended in failure on its first process although
\* another one remained.
C22_Witness ==
    /\ script = "send_field_lineage"
    /\ spc = "failed"
    /\ pc = "raised"
    /\ idx < Len(records)
    /\ Len(requests) = 1
    /\ exit_code = Num(1)

(***************************************************************************)
(* Claims on the mutations of send_dqm_results and send_field_lineage.     *)
(***************************************************************************)
\* The rows of the input file that belong to a dataset, in file order.
RowsOf(dataset) ==
    SelectSeq(input.v, LAMBDA row : row.v["dataset"] = dataset)

\* The datasets of the input file whose first row has a trust_score that
\* float() accepts.
ValidDatasets ==
    {Str(DatasetNames[d]) : d \in 1..Len(DatasetNames)} \cap
    {input.v[i].v["dataset"] : i \in {j \in 1..Len(input.v) :
        /\ \A k \in 1..(j - 1) : input.v[k].v["dataset"] # input.v[j].v["dataset"]
        /\ "trust_score" \in DOMAIN input.v[j].v
        /\ IsFloat(input.v[j].v["trust_score"].v)}}

\* C27: every mutation of send_dqm_results is for a dataset of the file
\* whose first row has a valid trust_score, its ref is that dataset, its
\* checks are the rows of that dataset, one per row in file order, no two
\* requests share a dataset or a mutation id, and when the loop ends every
\* such dataset has got its request, whatever invalid datasets came before.
C27_OneMutationPerDataset ==
    (script = "send_dqm_results" /\ spc \in {"loop", "await", "done", "failed"}) =>
        /\ \A i \in 1..Len(requests) :
              LET vars_i == requests[i].v
                  rows == RowsOf(vars_i["ref"])
              IN /\ vars_i["ref"] \in ValidDatasets
                 /\ Len(vars_i["quality"].v["checks"].v) = Len(rows)
                 /\ \A n \in 1..Len(rows) :
                       /\ vars_i["quality"].v["checks"].v[n].v["name"] = rows[n].v["check_name"]
                       /\ vars_i["quality"].v["checks"].v[n].v["result"] = rows[n].v["check_result"]
                 /\ \A j \in 1..Len(requests) :
                       j # i => /\ requests[j].v["ref"] # vars_i["ref"]
                                /\ requests[j].v["mutation_id"] # vars_i["mutation_id"]
        /\ spc = "done" =>
              \A d \in ValidDatasets : \E i \in 1..Len(requests) : requests[i].v["ref"] = d

\* A run that ended normally on a file of two datasets, the first one with
\* an invalid trust_score: one request, for the second dataset.
C27_Witness ==
    /\ script = "send_dqm_results" /\ spc = "done"
    /\ ValidDatasets = {Str("ds2")}
    /\ Len(input.v) = 2 /\ input.v[1].v["dataset"] # input.v[2].v["dataset"]
    /\ Len(requests) = 1 /\ requests[1].v["ref"] = Str("ds2")

\* The clientMutationId echoed in the data of the response.
EchoedId ==
    LET field == IF script = "send_dqm_results" THEN "updateDataQualityStatementV2"
                 ELSE "updateDataProcessOperationsV2"
    IN IF IsNone(result.data.v[field]) THEN None
       ELSE result.data.v[field].v["clientMutationId"]

\* C28: in send_dqm_results and send_field_lineage each mutation response
\* yields exactly one status line: inconsistent when data is present and the
\* echoed id differs from the one sent, else not found for a sole
\* ITEM_NOT_FOUND error, else the error list when there are errors, else
\* updated.
C28_OneStatusLine ==
    [][(script \in {"send_dqm_results", "send_field_lineage"} /\ HandlesResponse) =>
          /\ Len(output') = 1
          /\ output'[1].msg \in {"ERROR inconsistent client mutation id", "not found",
                                 "errors", "updated", "updated successfully"}
          /\ output'[1].msg \in {"updated", "updated successfully"} =>
                /\ ~has_errors(result)
                /\ Truthy(result.data) => EchoedId = mutation_id
          /\ (Truthy(result.data) /\ EchoedId # mutation_id)
                => output'[1].msg = "ERROR inconsistent client mutation id"
          /\ (~Truthy(result.data) /\ has_error(result, "ITEM_NOT_FOUND", TRUE))
                => output'[1].msg = "not found"
          /\ (~Truthy(result.data) /\ has_errors(result)
                /\ ~has_error(result, "ITEM_NOT_FOUND", TRUE))
                => (output'[1].msg = "errors" /\ output'[1].arg = result.errors)]_vars

(***************************************************************************)
(* Claims on the legacy scripts.                                           *)
(***************************************************************************)
\* The read-item query of the current row has just returned no item, and
\* main has printed that it skips the row.
PrintedSkip ==
    /\ script = "update-items-from-excel/main.py"
    /\ spc = "update"
    /\ \E i \in 1..Len(output) :
          /\ output[i].msg = "wasn't found. Skipping it!"
          /\ output[i].arg = records[idx].v["key"]

\* C23: in the legacy update-items-from-excel/main.py, once main has
\* printed that a row is skipped because its item was not found, no update
\* mutation is issued for that row: the next step of main moves to the next
\* row without a request.
C23_NotFoundRowSkipped ==
    [][PrintedSkip => (requests' = requests /\ idx' = idx + 1 /\ spc' = "loop")]_vars

\* The checks that the rows of a dataset give, in file order.
LegacyChecksOf(dataset) ==
    MapSeq(legacy_dq_statement,
           SelectSeq(input.v, LAMBDA row : row.v["dataset"] = dataset))

\* The distinct datasets of the file.
LegacyDatasets == {input.v[i].v["dataset"] : i \in 1..Len(input.v)}

\* C29: in the legacy send-dqm-results/main.py every update carries, under
\* the ref of a dataset, the originator, the trust score, the dashboard
\* link and the checks of the rows of that same dataset, and when main ends
\* every dataset of the file has received exactly one update.
C29_RefMatchesStatement ==
    (script = "send-dqm-results/main.py" /\ spc \in {"loop", "done"}) =>
        /\ \A i \in 1..Len(requests) :
              LET ref == requests[i].v["ref"]
                  quality == requests[i].v["quality"].v
                  rows == SelectSeq(input.v, LAMBDA row : row.v["dataset"] = ref)
              IN /\ quality["checks"].v = LegacyChecksOf(ref)
                 /\ quality["originator"] = rows[1].v["originator"]
                 /\ quality["trustScore"] = rows[1].v["trust_score"]
                 /\ quality["dashboardLink"] = rows[1].v["dashboard_link"]
        /\ spc = "done" =>
              \A d \in LegacyDatasets :
                  Cardinality({i \in 1..Len(requests) : requests[i].v["ref"] = d}) = 1

(***************************************************************************)
(* Claims on the SCIM client.                                              *)
(***************************************************************************)
\* C24: group_remove_user, like group_add_user, returns None or a ScimError
\* for every outcome of the group lookup and of the PATCH call; it never
\* raises for an Error object of the server.
C24_RemoveReturnsErrors ==
    fn_name \in {"group_add_user", "group_remove_user"} =>
        fn_out.t \in {"None", "ScimError"}

(***************************************************************************)
(* Claims on termination.                                                  *)
(***************************************************************************)
\* max(1, max_retries)
MostAttempts == IF max_retries > 1 THEN max_retries ELSE 1

\* C25: whatever max_retries is (0 and negative values included) and
\* whatever the server answers, a request call that is in progress ends, by
\* returning or by raising, and it has then made at least 1 and at most
\* max(1, max_retries) POSTs; with max_retries <= 1 the first 5xx answer
\* raises at once, without a sleep or a second POST.
C25_BoundedAttempts ==
    /\ [](pc = "loop" => Len(Posts) < MostAttempts)
    /\ [](pc \in {"returned", "raised"} =>
            /\ 1 <= Len(Posts) /\ Len(Posts) <= MostAttempts
            /\ (max_retries <= 1 /\ StatusBranch(Posts[1]) = "retry") =>
                  (pc = "raised" /\ Len(Posts) = 1 /\ Sleeps = <<>>))
    /\ (pc = "loop" ~> pc \in {"returned", "raised"})

\* A call with max_retries = 0 that a single 503 has ended.
C25_Witness ==
    /\ max_retries = 0 /\ pc = "raised"
    /\ trace = <<PostEvent(503)>>

\* main has ended: normally, by sys.exit, or on an uncaught exception.
Ended == spc \in {"done", "exited", "failed"}

\* C26: the pagination loops of export_items_in_excel.main, of
\* migrate_contact.copy_responsibility and of the legacy
\* export-items-in-excel/main.py end when the server holds a chain of pages
\* whose last one has hasNextPage = false, or answers without data; against
\* a server that answers every listing with hasNextPage = true and the same
\* endCursor, a loop that has received a page never ends and goes on
\* requesting, as far as the server is asked.
C26_LoopsEndWithTheChain ==
    /\ (~server_loops => <>Ended)
    /\ []((server_loops /\ server_pos > 0) => ~Ended)
    /\ ((server_loops /\ server_pos > 0) ~> server_pos = MaxFetches)


(***************************************************************************)
(* Claims on migrate_contact.                                              *)
(***************************************************************************)
\* The item references of the link requests among reqs, in order.
LinkRefs(reqs) ==
    MapSeq(LAMBDA variables : variables.v["item_ref"],
           SelectSeq(reqs, LAMBDA variables : "item_ref" \in DOMAIN variables.v))

\* The requests of the copy in progress: from its first page request on.
CopyRequests == SubSeq(requests, RunStart(requests), Len(requests))

\* The identifiers of the items of pages 1..n of the server, in page and
\* node order.
RECURSIVE ChainIds(_, _)
ChainIds(ch, n) ==
    IF n = 0 THEN <<>>
    ELSE ChainIds(ch, n - 1) \o [j \in 1..ch[n].k |-> ContactNode(n, j).v["id"]]

\* The step issues the link request of item.
IssuesLink(item) ==
    /\ IssuesRequest
    /\ Get(LastRequest', "item_ref") = item.id
    /\ Get(LastRequest', "contact_ref") = input.to

\* C30: in migrate_contact the link requests of a copy follow the items of
\* the pages served, one request per item in page and node order, and when
\* page n + 1 is requested the items of pages 1..n have all got their link; a page with items is followed by the link of its first item and a
\* link response by the link of the next item of the page, if any;
\* error_count grows by one with each link response that has errors and
\* with nothing else; and when --from and --to are equal main exits before
\* a client exists or a request is issued.
C30_LinksFollowPages ==
    /\ []((script = "migrate_contact" /\ requests # <<>>) =>
            LET copy == CopyRequests
                links == LinkRefs(copy)
                ids == ChainIds(server_pages, Len(server_pages))
            IN /\ Len(links) <= Len(ids)
               /\ links = SubSeq(ids, 1, Len(links))
               /\ IsPageRequest(LastRequest) =>
                     Len(links) = ChainTotal(server_pages, Len(copy) - Len(links) - 1))
    /\ [][script = "migrate_contact" =>
            /\ (PageReceived /\ ~migrate_read_page_raises(result) /\ Truthy(ReceivedPage)) =>
                  IssuesLink(ReceivedPage.content.v[1])
            /\ (spc = "link" /\ pc = "returned") =>
                  /\ error_count' = error_count + (IF has_errors(result) THEN 1 ELSE 0)
                  /\ item_idx < Len(cur_page.content.v) =>
                        IssuesLink(cur_page.content.v[item_idx + 1])
            /\ ~(spc = "link" /\ pc = "returned") =>
                  error_count' \in {error_count, 0}]_vars
    /\ []((script = "migrate_contact" /\ input.from = input.to) =>
            /\ requests = <<>> /\ calls = 0 /\ client_state = "NotCreated"
            /\ spc \in {"start", "exited"})

\* A copy that has ended after the two links of a page, the second of
\* which came back with errors.
C30_Witness ==
    /\ script = "migrate_contact" /\ spc = "loop"
    /\ Len(requests) = 3 /\ LinkRefs(requests) = ChainIds(server_pages, 1)
    /\ Len(LinkRefs(requests)) = 2
    /\ error_count = 1 /\ has_errors(result)
=============================================================================
